---- MODULE Spec2Model ----
(***************************************************************************)
(* Stack (LIFO) and Queue (FIFO) containers of the Stack & Queue           *)
(* visualizer (src/js/main.js).  Each method is an operator from the       *)
(* receiver (a record of the object's fields) and the arguments to a      *)
(* result record: the receiver after the call, the returned value and the *)
(* message of the Error thrown, if any.  Each action is one method call   *)
(* on the stack or on the queue.                                          *)
(***************************************************************************)
EXTENDS Integers, Sequences, FiniteSets, TLC

VARIABLES
    stack,        \* the Stack instance: [items, maxSize]
    stackOut,     \* the last call on the stack: [op, arg, n, ret, thrown]
    stackRank,    \* history: stackRank[i] is the push-order rank of stack.items[i]
    lifo,         \* history: the current run of pushes onto an empty stack, then pops
    reverseCalled,\* history: reverse() was called on the stack
    stackArr,     \* the array stack.toArray() returned to the caller of the last call
    queue,        \* the Queue instance: [items, maxSize]
    queueOut,     \* the last call on the queue: [op, arg, ret, thrown]
    enqLog,       \* history: the values enqueued successfully since the last clear
    deqLog,       \* history: the values returned by the dequeues that removed an element
    queueArr,     \* the array queue.toArray() returned to the caller of the last call
    sink,         \* what window.notifications is: undefined or the NotificationSystem
    stackDemo,    \* the StackDemo instance: its stack, input field, displays, buttons,
                  \* the rendered items and the pending timers of its animations
    stackDemoOut, \* the last StackDemo command: [cmd, emitted, delivered, thrown]
    queueDemo,    \* the QueueDemo instance: its queue, input field, displays and buttons
    queueDemoOut, \* the last QueueDemo command: [cmd, arg, delivered, fallback, called,
                  \* thrown]
    notifications,\* the NotificationSystem instance: its toasts, its limits, the toast
                  \* elements in the document and its pending timers
    toastOut,     \* the last call on the NotificationSystem: [op, id]
    toastLog,     \* history: the toasts remove() was called for, those whose
                  \* dismissal and removal timers fired, and clear() with no show() since
    stacks,       \* two Stack objects s and t: [s, t, shared, made], shared when
                  \* s.items and t.items are one array, made the way t was produced
    stacksOut     \* the last call on s or t: [op, on, arg, thrown, self, other], self
                  \* and other being this and other after a call of merge

vars == <<stack, stackOut, stackRank, lifo, reverseCalled, stackArr,
          queue, queueOut, enqLog, deqLog, queueArr,
          sink, stackDemo, stackDemoOut, queueDemo, queueDemoOut,
          notifications, toastOut, toastLog, stacks, stacksOut>>

stackVars == <<stack, stackOut, stackRank, lifo, reverseCalled, stackArr>>
queueVars == <<queue, queueOut, enqLog, deqLog, queueArr>>
stackDemoVars == <<stackDemo, stackDemoOut>>
queueDemoVars == <<queueDemo, queueDemoOut>>
notifVars == <<notifications, toastOut, toastLog>>
copyVars == <<stacks, stacksOut>>
demoVars == <<sink, stackDemoVars, queueDemoVars, notifVars, copyVars>>

(***************************************************************************)
(* Bounds of the exploration.                                              *)
(***************************************************************************)
\* setMaxSize is called with -1 .. MaxSizeArg; the stack is explored from
\* the capacity MaxSizeArg
MaxSizeArg == 3
\* the capacity the queue is explored with (the constructor's 50 scaled down)
QueueCap == 3
\* at most MaxEnq successful enqueues are logged between two clears
MaxEnq == QueueCap + 1
\* the capacity the stack of the StackDemo is explored with, the state
\* reached by setMaxSize(DemoCap) on its new stack
DemoCap == 3
\* in SpecStackView pop() is explored while fewer than MaxPending timers wait
MaxPending == 2
\* in SpecStackView push() is explored while fewer than MaxRendered items are
\* rendered
MaxRendered == DemoCap + 1
\* the NotificationSystem is explored after setMaxToasts(MaxToastsArg) and
\* setDefaultDuration(DurationTicks * 100), with at most MaxShows toasts
\* shown and at most MaxToastTimers timers pending
MaxToastsArg == 2
DurationTicks == 2
MaxShows == 3
MaxToastTimers == 3
\* the two stacks s and t are explored with at most CopyCap elements, s after
\* setMaxSize(CopyCap)
CopyCap == 2

(***************************************************************************)
(* JavaScript values.  Strings stand for themselves; null, undefined and   *)
(* true are tokens that no input string equals.                            *)
(***************************************************************************)
Null == "<null>"
Undefined == "<undefined>"
True == "<true>"
False == "<false>"
NoError == "<no error>"

\* the non-empty strings used as elements
Elements == {"A", "B"}
\* every argument value tried: the elements, and the empty or absent values
Values == Elements \cup {Null, Undefined, ""}
\* the arguments of setMaxSize
SizeArgs == -1 .. MaxSizeArg

(***************************************************************************)
(* Array.prototype methods used by the two classes.                        *)
(***************************************************************************)
\* a.push(x): x becomes the last element
ArrayPush(a, x) == Append(a, x)

\* a.pop(): the array without its last element (a is non-empty)
ArrayPopRest(a) == SubSeq(a, 1, Len(a) - 1)

\* a.shift(): the array without its first element (a is non-empty)
ArrayShiftRest(a) == SubSeq(a, 2, Len(a))

\* a.slice(start) for a negative or zero start: the relative start is
\* max(len + start, 0), counted from 0
ArraySlice(a, start) ==
    LET from == IF start < 0
                THEN (IF Len(a) + start > 0 THEN Len(a) + start ELSE 0)
                ELSE (IF start < Len(a) THEN start ELSE Len(a))
    IN  SubSeq(a, from + 1, Len(a))

\* a.reverse()
ArrayReverse(a) == [i \in 1..Len(a) |-> a[Len(a) + 1 - i]]

\* a.indexOf(x), 0-based, -1 when absent
ArrayIndexOf(a, x) ==
    IF \E i \in 1..Len(a) : a[i] = x
    THEN (CHOOSE i \in 1..Len(a) : a[i] = x /\ \A j \in 1..(i-1) : a[j] # x) - 1
    ELSE -1

\* a.includes(x)
ArrayIncludes(a, x) == \E i \in 1..Len(a) : a[i] = x

(***************************************************************************)
(* Outcome of a method call.                                               *)
(***************************************************************************)
Return(self, value) == [self |-> self, ret |-> value, thrown |-> NoError]
Throw(self, message) == [self |-> self, ret |-> Undefined, thrown |-> message]

\* an array handed to the caller: its elements, and whether it is a new
\* array object (a copy) or the receiver's own items array
ArrayRef(elems, copy) == [elems |-> elems, copy |-> copy]

\* what the call records of a returned boolean, number or array
Bool(b) == IF b THEN True ELSE False
Number(n) == ToString(n)
ArrayToken == "<array>"

(***************************************************************************)
(* class Stack                                                             *)
(***************************************************************************)
StackOverflow == "Stack overflow: Maximum size reached"
StackInvalidElement == "Invalid element: Cannot push empty value"
StackUnderflow == "Stack underflow: Cannot pop from empty stack"
StackInvalidSize == "Invalid size: Maximum size must be at least 1"

Stack_constructor == [items |-> <<>>, maxSize |-> 10]

Stack_isEmpty(S) == Len(S.items) = 0

Stack_size(S) == Len(S.items)

Stack_isFull(S) == Len(S.items) >= S.maxSize

Stack_getMaxSize(S) == S.maxSize

\* push that tests the value before the capacity
Stack_push_valueFirst(S, element) ==
    IF element = Undefined \/ element = Null \/ element = ""
    THEN Throw(S, StackInvalidElement)
    ELSE IF Len(S.items) >= S.maxSize
    THEN Throw(S, StackOverflow)
    ELSE Return([S EXCEPT !.items = ArrayPush(S.items, element)], True)

\* push that accepts the empty string
Stack_push_emptyString(S, element) ==
    IF Len(S.items) >= S.maxSize
    THEN Throw(S, StackOverflow)
    ELSE IF element = Undefined \/ element = Null
    THEN Throw(S, StackInvalidElement)
    ELSE Return([S EXCEPT !.items = ArrayPush(S.items, element)], True)

Stack_push(S, element) ==
    IF Len(S.items) >= S.maxSize
    THEN Throw(S, StackOverflow)
    ELSE IF element = Undefined \/ element = Null \/ element = ""
    THEN Throw(S, StackInvalidElement)
    ELSE Return([S EXCEPT !.items = ArrayPush(S.items, element)], True)

\* pop that takes the bottom element (shift instead of pop)
Stack_pop_shift(S) ==
    IF Stack_isEmpty(S)
    THEN Throw(S, StackUnderflow)
    ELSE Return([S EXCEPT !.items = ArrayShiftRest(S.items)], S.items[1])

\* pop without the emptiness test: [].pop() returns undefined
Stack_pop_noUnderflow(S) ==
    IF Stack_isEmpty(S)
    THEN Return(S, Undefined)
    ELSE Return([S EXCEPT !.items = ArrayPopRest(S.items)], S.items[Len(S.items)])

Stack_pop(S) ==
    IF Stack_isEmpty(S)
    THEN Throw(S, StackUnderflow)
    ELSE Return([S EXCEPT !.items = ArrayPopRest(S.items)], S.items[Len(S.items)])

\* peek that reads the bottom element
Stack_peek_bottom(S) ==
    IF Stack_isEmpty(S)
    THEN Return(S, Null)
    ELSE Return(S, S.items[1])

Stack_peek(S) ==
    IF Stack_isEmpty(S)
    THEN Return(S, Null)
    ELSE Return(S, S.items[Len(S.items)])

\* clear that builds the stack anew, default capacity included
Stack_clear_reset(S) == Return(Stack_constructor, Undefined)

Stack_clear(S) == Return([S EXCEPT !.items = <<>>], Undefined)

\* setMaxSize that does not trim the items
Stack_setMaxSize_noTrim(S, size) ==
    IF size < 1
    THEN Throw(S, StackInvalidSize)
    ELSE Return([items |-> S.items, maxSize |-> size], Undefined)

\* setMaxSize that accepts 0 (size < 0 instead of size < 1)
Stack_setMaxSize_zero(S, size) ==
    IF size < 0
    THEN Throw(S, StackInvalidSize)
    ELSE Return([items |-> IF Len(S.items) > size
                           THEN ArraySlice(S.items, -size)
                           ELSE S.items,
                 maxSize |-> size], Undefined)

\* setMaxSize that keeps the bottom elements (slice(0, size))
Stack_setMaxSize_keepBottom(S, size) ==
    IF size < 1
    THEN Throw(S, StackInvalidSize)
    ELSE Return([items |-> IF Len(S.items) > size
                           THEN SubSeq(S.items, 1, size)
                           ELSE S.items,
                 maxSize |-> size], Undefined)

Stack_setMaxSize(S, size) ==
    IF size < 1
    THEN Throw(S, StackInvalidSize)
    ELSE Return([items |-> IF Len(S.items) > size
                           THEN ArraySlice(S.items, -size)
                           ELSE S.items,
                 maxSize |-> size], Undefined)

\* toArray that returns the items array itself
Stack_toArray_noCopy(S) == Return(S, ArrayRef(S.items, FALSE))

\* [...this.items]: a new array with the same elements
Stack_toArray(S) == Return(S, ArrayRef(S.items, TRUE))

Stack_contains(S, element) == Return(S, ArrayIncludes(S.items, element))

Stack_reverse(S) == Return([S EXCEPT !.items = ArrayReverse(S.items)], Undefined)

\* the loop of search, at index i (0-based), going down to 0
RECURSIVE Stack_searchFrom(_, _, _)
Stack_searchFrom(S, element, i) ==
    IF i >= 0
    THEN IF S.items[i + 1] = element
         THEN Len(S.items) - 1 - i
         ELSE Stack_searchFrom(S, element, i - 1)
    ELSE -1

\* search that scans from the bottom and stops at the first occurrence
Stack_search_fromBottom(S, element) ==
    Return(S, IF ArrayIncludes(S.items, element)
              THEN Len(S.items) - 1 - ArrayIndexOf(S.items, element)
              ELSE -1)

Stack_search(S, element) == Return(S, Stack_searchFrom(S, element, Len(S.items) - 1))

(***************************************************************************)
(* clone, merge, toJSON and fromJSON make or hand out a Stack or an array. *)
(* The field copy of their result says whether the items array of the      *)
(* result is a new array (TRUE) or the array another object holds (FALSE). *)
(***************************************************************************)
StackInvalidJSON == "Invalid JSON: Not a Stack representation"
StackInvalidParameter == "Invalid parameter: Expected Stack instance"

\* clone that hands its own items array to the new stack
Stack_clone_noCopy(S) ==
    [ret |-> [items |-> S.items, maxSize |-> S.maxSize], copy |-> FALSE]

Stack_clone(S) ==
    [ret |-> [items |-> S.items, maxSize |-> S.maxSize], copy |-> TRUE]

\* Array.isArray(this.items) holds of every stack of the model
Stack_isValid(S) == Len(S.items) <= S.maxSize /\ S.maxSize > 0

\* the object toJSON() returns; its items is this.items itself
Stack_toJSON(S) ==
    [null |-> FALSE, type |-> "Stack", hasItems |-> TRUE, items |-> S.items,
     copy |-> FALSE, maxSize |-> S.maxSize, size |-> Stack_size(S),
     top |-> Stack_peek(S).ret]

\* json.maxSize || 10 and json.items || []: 0 stands for a maxSize that is
\* 0 or absent, hasItems = FALSE for items that are absent
Stack_fromJSON(json) ==
    IF json.null \/ json.type # "Stack"
    THEN [ret |-> Stack_constructor, thrown |-> StackInvalidJSON, copy |-> TRUE]
    ELSE [ret |-> [items |-> IF json.hasItems THEN json.items ELSE <<>>,
                   maxSize |-> IF json.maxSize # 0 THEN json.maxSize ELSE 10],
          thrown |-> NoError,
          copy |-> ~json.hasItems \/ json.copy]

RECURSIVE MergeFrom(_, _, _)
\* the loop of merge() from the k-th element of otherArray on
MergeFrom(merged, otherArray, k) ==
    IF k > Len(otherArray) \/ Stack_isFull(merged)
    THEN Return(merged, Undefined)
    ELSE LET r == Stack_push(merged, otherArray[k]) IN
         IF r.thrown # NoError
         THEN r
         ELSE MergeFrom(r.self, otherArray, k + 1)

\* this.merge(other), class being the class of other; the result records
\* this and other after the call and the merged stack
Stack_merge(S, class, other) ==
    IF class # "Stack"
    THEN [self |-> S, other |-> other, ret |-> Stack_constructor,
          thrown |-> StackInvalidParameter]
    ELSE LET c == Stack_clone(S)
             r == MergeFrom(c.ret, Stack_toArray(other).ret.elems, 1)
         IN  [self |-> IF c.copy THEN S ELSE [S EXCEPT !.items = r.self.items],
              other |-> other, ret |-> r.self, thrown |-> r.thrown]

(***************************************************************************)
(* class Queue                                                             *)
(***************************************************************************)
\* the message ends with the value of maxSize
QueueOverflow == "Queue overflow! Maximum size is "

Queue_constructor == [items |-> <<>>, maxSize |-> 50]

Queue_isEmpty(Q) == Len(Q.items) = 0

Queue_size(Q) == Len(Q.items)

\* enqueue whose capacity test is off by one
Queue_enqueue_offByOne(Q, item) ==
    IF Queue_size(Q) > Q.maxSize
    THEN Throw(Q, QueueOverflow)
    ELSE Return([Q EXCEPT !.items = ArrayPush(Q.items, item)], True)

\* enqueue that inserts at the front (unshift instead of push)
Queue_enqueue_unshift(Q, item) ==
    IF Queue_size(Q) >= Q.maxSize
    THEN Throw(Q, QueueOverflow)
    ELSE Return([Q EXCEPT !.items = <<item>> \o Q.items], True)

Queue_enqueue(Q, item) ==
    IF Queue_size(Q) >= Q.maxSize
    THEN Throw(Q, QueueOverflow)
    ELSE Return([Q EXCEPT !.items = ArrayPush(Q.items, item)], True)

\* dequeue that takes the rear element (pop instead of shift)
Queue_dequeue_pop(Q) ==
    IF Queue_isEmpty(Q)
    THEN Return(Q, Null)
    ELSE Return([Q EXCEPT !.items = ArrayPopRest(Q.items)], Q.items[Len(Q.items)])

\* dequeue that throws on the empty queue
Queue_dequeue_throws(Q) ==
    IF Queue_isEmpty(Q)
    THEN Throw(Q, "Queue underflow")
    ELSE Return([Q EXCEPT !.items = ArrayShiftRest(Q.items)], Q.items[1])

Queue_dequeue(Q) ==
    IF Queue_isEmpty(Q)
    THEN Return(Q, Null)
    ELSE Return([Q EXCEPT !.items = ArrayShiftRest(Q.items)], Q.items[1])

Queue_front(Q) ==
    IF Queue_isEmpty(Q)
    THEN Return(Q, Null)
    ELSE Return(Q, Q.items[1])

\* rear that reads the first element
Queue_rear_first(Q) ==
    IF Queue_isEmpty(Q)
    THEN Return(Q, Null)
    ELSE Return(Q, Q.items[1])

Queue_rear(Q) ==
    IF Queue_isEmpty(Q)
    THEN Return(Q, Null)
    ELSE Return(Q, Q.items[Len(Q.items)])

Queue_toArray(Q) == Return(Q, ArrayRef(Q.items, TRUE))

\* search that finds the last occurrence (lastIndexOf instead of indexOf)
Queue_search_last(Q, item) ==
    Return(Q, IF ArrayIncludes(Q.items, item)
              THEN Len(Q.items) - 1 - ArrayIndexOf(ArrayReverse(Q.items), item)
              ELSE -1)

Queue_search(Q, item) == Return(Q, ArrayIndexOf(Q.items, item))

Queue_contains(Q, item) == Return(Q, ArrayIncludes(Q.items, item))

\* clear that drops the front element only
Queue_clear_shift(Q) == Return([Q EXCEPT !.items = ArrayShiftRest(Q.items)], Undefined)

Queue_clear(Q) == Return([Q EXCEPT !.items = <<>>], Undefined)

(***************************************************************************)
(* String.prototype.trim.                                                  *)
(***************************************************************************)
WhiteSpace == {" ", "\t"}

RECURSIVE TrimStart(_)
TrimStart(str) ==
    IF Len(str) > 0 /\ SubSeq(str, 1, 1) \in WhiteSpace
    THEN TrimStart(SubSeq(str, 2, Len(str)))
    ELSE str

RECURSIVE TrimEnd(_)
TrimEnd(str) ==
    IF Len(str) > 0 /\ SubSeq(str, Len(str), Len(str)) \in WhiteSpace
    THEN TrimEnd(SubSeq(str, 1, Len(str) - 1))
    ELSE str

Trim(str) == TrimEnd(TrimStart(str))

(***************************************************************************)
(* The notification sink, window.notifications: undefined while            *)
(* utils/notifications.js is not loaded, else the NotificationSystem       *)
(* instance.  A sink is seen through the members it defines.               *)
(***************************************************************************)
SinkUndefined == "undefined"
NotificationSystemSink == "NotificationSystem"
Sinks == {SinkUndefined, NotificationSystemSink}

\* the fields and methods of class NotificationSystem
NotificationSystemMembers ==
    {"container", "activeToasts", "maxToasts", "defaultDuration",
     "init", "createContainer", "injectStyles", "show", "createToast",
     "remove", "clear", "success", "error", "warning", "info",
     "getDefaultTitle", "getIcon", "escapeHtml", "update",
     "getActiveToasts", "setMaxToasts", "setDefaultDuration"}

SinkHas(w, member) == w = NotificationSystemSink /\ member \in NotificationSystemMembers

\* the outcome of a notification: the calls that reached the sink and the
\* error thrown, if any
Delivered(method, message) == [delivered |-> <<[method |-> method, message |-> message]>>,
                               thrown |-> NoError]
NotDelivered == [delivered |-> <<>>, thrown |-> NoError]
NotifyThrows(message) == [delivered |-> <<>>, thrown |-> message]

TypeErrorNotAFunction == "TypeError: window.notifications.validationError is not a function"

(***************************************************************************)
(* class StackDemo                                                         *)
(***************************************************************************)
StackNotifications == {"stack.pushed", "stack.popped", "stack.peeked",
                       "stack.overflow", "stack.empty", "stack.cleared"}

\* the switch of notify(type, message, value) with w as window.notifications
NotifySwitch(w, type, message, value) ==
    IF type = "validation"
    THEN IF SinkHas(w, "validationError")
         THEN Delivered("validationError", message)
         ELSE NotifyThrows(TypeErrorNotAFunction)
    ELSE IF type \in StackNotifications
    THEN IF SinkHas(w, "stack")
         THEN Delivered(type, value)
         ELSE NotDelivered
    ELSE IF type = "info"
    THEN IF SinkHas(w, "info")
         THEN Delivered("info", message)
         ELSE NotDelivered
    ELSE NotDelivered

\* notify without its test of window.notifications
NotifySink_noGuard(w, type, message, value) ==
    IF w = SinkUndefined
    THEN NotifyThrows("TypeError: Cannot read properties of undefined")
    ELSE NotifySwitch(w, type, message, value)

\* what notify(type, message, value) does with w as window.notifications
NotifySink(w, type, message, value) ==
    IF w = SinkUndefined
    THEN NotDelivered
    ELSE NotifySwitch(w, type, message, value)

\* notify(type, message, value): the type the command emitted, the calls
\* that reached the sink and the error thrown, if any
StackDemo_notify(w, type, message, value) ==
    LET n == NotifySink(w, type, message, value) IN
    [emitted |-> <<type>>, delivered |-> n.delivered, thrown |-> n.thrown]

Button(disabled, title) == [disabled |-> disabled, title |-> title]

StackDemo_validateInput(D) ==
    LET value == Trim(D.input) IN
    [D EXCEPT !.pushBtn =
        IF value = ""
        THEN Button(TRUE, "Enter a value first")
        ELSE IF Len(value) > 15
        THEN Button(TRUE, "Value too long (max 15 characters)")
        ELSE IF Stack_size(D.stack) >= D.stack.maxSize
        THEN Button(TRUE, "Stack is full")
        ELSE Button(FALSE, "Push to stack")]

StackDemo_updateButtonStates(D) ==
    LET isEmpty == Stack_isEmpty(D.stack) IN
    StackDemo_validateInput(
        [D EXCEPT !.popBtn = Button(isEmpty, IF isEmpty THEN "Stack is empty"
                                             ELSE "Pop from stack"),
                  !.peekBtn = Button(isEmpty, IF isEmpty THEN "Stack is empty"
                                              ELSE "View top element"),
                  !.clearBtn = Button(isEmpty, IF isEmpty THEN "Stack is empty"
                                               ELSE "Clear all elements")])

StackDemo_updateDisplay(D) ==
    LET top == Stack_peek(D.stack).ret IN
    StackDemo_updateButtonStates(
        [D EXCEPT !.sizeDisplay = Number(Stack_size(D.stack)),
                  !.topDisplay = IF top # Null THEN top ELSE "None",
                  !.statusDisplay = IF Stack_isEmpty(D.stack) THEN "Empty"
                                    ELSE IF Stack_size(D.stack) >= D.stack.maxSize
                                    THEN "Full"
                                    ELSE "Active"])

\* the constructor: a new stack, the page's elements, then updateDisplay()
StackDemo_constructor ==
    StackDemo_updateDisplay(
        [stack |-> Stack_setMaxSize(Stack_constructor, DemoCap).self,
         input |-> "",
         sizeDisplay |-> "", topDisplay |-> "", statusDisplay |-> "",
         pushBtn |-> Button(FALSE, ""), popBtn |-> Button(FALSE, ""),
         peekBtn |-> Button(FALSE, ""), clearBtn |-> Button(FALSE, ""),
         container |-> <<>>, emptyState |-> TRUE, timers |-> <<>>])

(***************************************************************************)
(* The visualization of the StackDemo.  container is the sequence of the   *)
(* .stack-item children of the container element, each seen by its text;   *)
(* emptyState says whether the .empty-state child is there.  The style     *)
(* classes of the elements are not part of the state.  A pending timer is  *)
(* [due, kind, pos]: the time left in units of 100 ms, what its callback   *)
(* does and the place in container of the element its callback holds       *)
(* (0 once that element has left the document).                            *)
(***************************************************************************)
Timer(due, kind, pos) == [due |-> due, kind |-> kind, pos |-> pos]

\* this.container.children.length
ChildrenLength(D) == Len(D.container) + (IF D.emptyState THEN 1 ELSE 0)

StackDemo_showEmptyState(D) == [D EXCEPT !.emptyState = TRUE]

StackDemo_addStackItem(D, value) ==
    [D EXCEPT !.emptyState = FALSE, !.container = Append(@, value)]

StackDemo_removeStackItem(D) ==
    IF Len(D.container) = 0
    THEN D
    ELSE [D EXCEPT !.timers = Append(@, Timer(4, "removeStackItem", Len(D.container)))]

StackDemo_clearVisualization(D) ==
    LET n == Len(D.container) IN
    [D EXCEPT !.timers = @ \o [i \in 1..n |-> Timer(i - 1, "clearItem", i)]
                           \o <<Timer(n + 4, "clearEmpty", 0)>>]

\* item.remove(): the element leaves the document, and the timers that hold
\* an element keep holding the same element
ItemRemove(D, pos) ==
    IF pos = 0
    THEN D
    ELSE [D EXCEPT !.container = SubSeq(@, 1, pos - 1) \o SubSeq(@, pos + 1, Len(@)),
                   !.timers = [i \in 1..Len(@) |->
                                  IF @[i].pos = pos THEN [@[i] EXCEPT !.pos = 0]
                                  ELSE IF @[i].pos > pos THEN [@[i] EXCEPT !.pos = @ - 1]
                                  ELSE @[i]]]

\* the callback of timer t of the StackDemo
StackDemo_timeout(D, t) ==
    IF t.kind = "removeStackItem"
    THEN LET removed == ItemRemove(D, t.pos) IN
         IF ChildrenLength(removed) = 0 THEN StackDemo_showEmptyState(removed) ELSE removed
    ELSE IF t.kind = "clearItem"
    THEN IF t.pos # 0
         THEN [D EXCEPT !.timers = Append(@, Timer(4, "clearRemove", t.pos))]
         ELSE D
    ELSE IF t.kind = "clearRemove"
    THEN ItemRemove(D, t.pos)
    ELSE IF ChildrenLength(D) = 0 THEN StackDemo_showEmptyState(D) ELSE D

\* the outcome of a command: the instance after it, the notification types
\* it emitted, the calls that reached the sink and the error the command
\* threw to its caller
Command(self, n) ==
    [self |-> self, emitted |-> n.emitted, delivered |-> n.delivered, thrown |-> n.thrown]

\* push() without its try and catch: the Error of the stack reaches the caller
StackDemo_push_noCatch(D, w) ==
    LET value == Trim(D.input)
        r == Stack_push(D.stack, value)
    IN  IF value = "" \/ Len(value) > 15
        THEN Command(D, StackDemo_notify(w, "validation", "Please enter a value", Null))
        ELSE IF r.thrown # NoError
        THEN [self |-> D, emitted |-> <<>>, delivered |-> <<>>, thrown |-> r.thrown]
        ELSE Command(StackDemo_validateInput(StackDemo_updateDisplay(
                         [StackDemo_addStackItem(D, value)
                             EXCEPT !.stack = r.self, !.input = ""])),
                     StackDemo_notify(w, "stack.pushed", Null, value))

StackDemo_push(D, w) ==
    LET value == Trim(D.input) IN
    IF value = ""
    THEN Command(D, StackDemo_notify(w, "validation", "Please enter a value", Null))
    ELSE IF Len(value) > 15
    THEN Command(D, StackDemo_notify(w, "validation",
                                     "Value too long (max 15 characters)", Null))
    ELSE LET r == Stack_push(D.stack, value)
             pushed == StackDemo_validateInput(StackDemo_updateDisplay(
                           [StackDemo_addStackItem(D, value)
                               EXCEPT !.stack = r.self, !.input = ""]))
             n == StackDemo_notify(w, "stack.pushed", Null, value)
             caught == StackDemo_notify(w, "stack.overflow", Undefined, Null)
         IN  IF r.thrown # NoError
             THEN Command([D EXCEPT !.stack = r.self], caught)
             ELSE IF n.thrown # NoError
             THEN Command(pushed, [caught EXCEPT !.emitted = n.emitted \o @,
                                                 !.delivered = n.delivered \o @])
             ELSE Command(pushed, n)

StackDemo_pop(D, w) ==
    IF Stack_isEmpty(D.stack)
    THEN Command(D, StackDemo_notify(w, "stack.empty", Undefined, Null))
    ELSE LET r == Stack_pop(D.stack)
             popped == StackDemo_validateInput(StackDemo_updateDisplay(
                           [StackDemo_removeStackItem(D) EXCEPT !.stack = r.self]))
         IN  IF r.thrown # NoError
             THEN [self |-> [D EXCEPT !.stack = r.self], emitted |-> <<>>,
                   delivered |-> <<>>, thrown |-> r.thrown]
             ELSE Command(popped, StackDemo_notify(w, "stack.popped", Null, r.ret))

StackDemo_peek(D, w) ==
    IF Stack_isEmpty(D.stack)
    THEN Command(D, StackDemo_notify(w, "stack.empty", Undefined, Null))
    ELSE LET r == Stack_peek(D.stack)
         IN  Command([D EXCEPT !.stack = r.self],
                     StackDemo_notify(w, "stack.peeked", Null, r.ret))

StackDemo_clear(D, w) ==
    IF Stack_isEmpty(D.stack)
    THEN Command(D, StackDemo_notify(w, "info", "Stack is already empty", Null))
    ELSE LET r == Stack_clear(D.stack)
             cleared == StackDemo_validateInput(StackDemo_updateDisplay(
                            [StackDemo_clearVisualization(D) EXCEPT !.stack = r.self]))
         IN  Command(cleared, StackDemo_notify(w, "stack.cleared", Undefined, Null))

\* what the user types into the input field
StackInputs == {"", " \t", "A", " B ", "ABCDEFGHIJKLMNO", " ABCDEFGHIJKLMNOP"}

(***************************************************************************)
(* class QueueDemo.  The texts of its messages are written without their   *)
(* diacritics.                                                             *)
(***************************************************************************)
\* a value in a template literal
TemplateString(value) ==
    IF value = Null THEN "null"
    ELSE IF value = Undefined THEN "undefined"
    ELSE value

\* value || 'None'
OrNone(value) == IF value \in {Null, Undefined, ""} THEN "None" ELSE value

\* the outcome of showNotification: the call that reached the sink, or the
\* toast that createToast() made when the sink does not take the type
QueueDemo_showNotification(w, message, type) ==
    IF w # SinkUndefined /\ SinkHas(w, type)
    THEN [delivered |-> <<[method |-> type, message |-> message]>>, fallback |-> <<>>]
    ELSE [delivered |-> <<>>, fallback |-> <<[method |-> type, message |-> message]>>]

QueueDemo_updateDisplay(D) ==
    LET isEmpty == Queue_isEmpty(D.queue) IN
    [D EXCEPT !.visualization = IF isEmpty THEN <<>> ELSE Queue_toArray(D.queue).ret.elems,
              !.sizeDisplay = Number(Queue_size(D.queue)),
              !.frontDisplay = OrNone(Queue_front(D.queue).ret),
              !.rearDisplay = OrNone(Queue_rear(D.queue).ret),
              !.statusDisplay = IF isEmpty THEN "Empty" ELSE "Has Data",
              !.dequeueBtn = isEmpty,
              !.frontBtn = isEmpty,
              !.clearBtn = isEmpty]

\* the callbacks of a QueueDemo; a callback returns or throws an Error
CallbackNames == {"overflow", "frontViewed", "dequeued", "cleared", "enqueued"}
Returns == "returns"
Throws == "throws"
CallbackBehaviours == {Returns, Throws}
CallbackError == "Error thrown by the callback"

\* the constructor: a new queue, the default callbacks, the page's elements,
\* then updateDisplay()
QueueDemo_constructor ==
    QueueDemo_updateDisplay(
        [queue |-> [Queue_constructor EXCEPT !.maxSize = QueueCap],
         callbacks |-> [name \in CallbackNames |-> Returns],
         inputField |-> "",
         visualization |-> <<>>,
         sizeDisplay |-> "", frontDisplay |-> "", rearDisplay |-> "",
         statusDisplay |-> "",
         dequeueBtn |-> FALSE, frontBtn |-> FALSE, clearBtn |-> FALSE])

QueueDemo_setCallbacks(D, name, behaviour) ==
    [D EXCEPT !.callbacks = [@ EXCEPT ![name] = behaviour]]

\* the outcome of a command: the instance after it, the notifications it
\* showed, the callbacks it called and the error it threw to its caller
QueueCommand(self, n, called, thrown) ==
    [self |-> self, delivered |-> n.delivered, fallback |-> n.fallback,
     called |-> called, thrown |-> thrown]

NoNotification == [delivered |-> <<>>, fallback |-> <<>>]

\* the notifications of n, then those of m
Then(n, m) == [delivered |-> n.delivered \o m.delivered, fallback |-> n.fallback \o m.fallback]

Called(name, arg) == [name |-> name, arg |-> arg]

\* the end of a try block: the callback is called, and the catch block
\* shows the message of the Error it throws
CallSafely(D, w, self, n, name, arg) ==
    IF D.callbacks[name] = Throws
    THEN QueueCommand(self, Then(n, QueueDemo_showNotification(w, CallbackError, "error")),
                      <<Called(name, arg)>>, NoError)
    ELSE QueueCommand(self, n, <<Called(name, arg)>>, NoError)

QueueDemo_enqueue(D, w, value) ==
    LET r == Queue_enqueue(D.queue, value)
        added == QueueDemo_updateDisplay([D EXCEPT !.queue = r.self])
        success == QueueDemo_showNotification(w, "Da them: " \o TemplateString(value),
                                              "success")
        failed == r.thrown # NoError
        \* the try block ends with the Error of the queue or of the callback
        error == IF failed THEN r.thrown
                 ELSE IF D.callbacks["enqueued"] = Throws THEN CallbackError
                 ELSE NoError
        self == IF failed THEN [D EXCEPT !.queue = r.self] ELSE added
        shown == IF failed THEN NoNotification ELSE success
        called == IF failed THEN <<>> ELSE <<Called("enqueued", value)>>
    IN  IF error = NoError
        THEN QueueCommand(self, shown, called, NoError)
        ELSE QueueCommand(self,
                          Then(shown, QueueDemo_showNotification(w, error, "error")),
                          called \o <<Called("overflow", Undefined)>>,
                          IF D.callbacks["overflow"] = Throws THEN CallbackError
                          ELSE NoError)

QueueDemo_dequeue(D, w) ==
    IF Queue_isEmpty(D.queue)
    THEN QueueCommand(D, QueueDemo_showNotification(w, "Queue dang trong!", "warning"),
                      <<>>, NoError)
    ELSE LET r == Queue_dequeue(D.queue) IN
         CallSafely(D, w, QueueDemo_updateDisplay([D EXCEPT !.queue = r.self]),
                    QueueDemo_showNotification(w, "Da lay ra: " \o TemplateString(r.ret),
                                               "success"),
                    "dequeued", r.ret)

QueueDemo_viewFront(D, w) ==
    LET front == Queue_front(D.queue).ret IN
    CallSafely(D, w, D,
               IF front = Null
               THEN QueueDemo_showNotification(w, "Queue dang trong!", "warning")
               ELSE QueueDemo_showNotification(w, "Phan tu dau: " \o TemplateString(front),
                                               "info"),
               "frontViewed", front)

\* clear() that returns at once on an empty queue
QueueDemo_clear_silent(D, w) ==
    IF Queue_isEmpty(D.queue)
    THEN QueueCommand(D, NoNotification, <<>>, NoError)
    ELSE CallSafely(D, w,
               QueueDemo_updateDisplay([D EXCEPT !.queue = Queue_clear(D.queue).self]),
               QueueDemo_showNotification(w, "Da xoa toan bo queue", "info"),
               "cleared", Undefined)

QueueDemo_clear(D, w) ==
    CallSafely(D, w,
               QueueDemo_updateDisplay([D EXCEPT !.queue = Queue_clear(D.queue).self]),
               QueueDemo_showNotification(w, "Da xoa toan bo queue", "info"),
               "cleared", Undefined)

\* the click listener of the enqueue button
QueueDemo_enqueueClick(D, w) ==
    LET value == Trim(D.inputField) IN
    IF value # ""
    THEN LET c == QueueDemo_enqueue(D, w, value) IN
         IF c.thrown # NoError
         THEN c
         ELSE [c EXCEPT !.self = [c.self EXCEPT !.inputField = ""]]
    ELSE QueueCommand(D, QueueDemo_showNotification(w, "Vui long nhap gia tri!", "warning"),
                      <<>>, NoError)

\* what the user types into the input field, empty at first
QueueInputs == {" \t", "A", " B "}

\* the values a script passes to queueDemo.enqueue(value)
QueueDemoValues == Elements \cup {""}

(***************************************************************************)
(* class NotificationSystem.  A toast is [id, serial]: its id and the      *)
(* number of the show() call that made it, which stands for the toast      *)
(* object and its element.  attached is the set of the toasts whose        *)
(* element is in the container.  A pending timer is [due, kind, serial,    *)
(* id, index]: the time left in units of 100 milliseconds, the callback    *)
(* ("dismiss": the automatic removal set by show(); "splice": the removal  *)
(* set by remove()), the toast the callback holds with its id and, for     *)
(* "splice", the index remove() found the toast at.                        *)
(***************************************************************************)
ToastsInvalidMax == "Maximum toasts must be at least 1"
ToastsInvalidDuration == "Duration cannot be negative"

NotificationSystem_constructor ==
    [activeToasts |-> <<>>, maxToasts |-> 5, defaultDuration |-> 4000,
     attached |-> {}, timers |-> <<>>, shown |-> 0]

NotificationSystem_setMaxToasts(N, max) ==
    IF max < 1
    THEN Throw(N, ToastsInvalidMax)
    ELSE Return([N EXCEPT !.maxToasts = max], Undefined)

NotificationSystem_setDefaultDuration(N, duration) ==
    IF duration < 0
    THEN Throw(N, ToastsInvalidDuration)
    ELSE Return([N EXCEPT !.defaultDuration = duration], Undefined)

\* activeToasts.findIndex(toast => toast.id === toastId), from 0, or -1
FindIndex(toasts, toastId) ==
    IF \E i \in 1..Len(toasts) : toasts[i].id = toastId
    THEN (CHOOSE i \in 1..Len(toasts) :
              /\ toasts[i].id = toastId
              /\ \A j \in 1..(i - 1) : toasts[j].id # toastId) - 1
    ELSE -1

\* array.splice(index, 1), index from 0
ArraySplice(a, index) ==
    IF index + 1 \in 1..Len(a)
    THEN SubSeq(a, 1, index) \o SubSeq(a, index + 2, Len(a))
    ELSE a

\* clearTimeout(toast.timeoutId)
ClearDismissal(timers, serial) ==
    SelectSeq(timers, LAMBDA t : ~(t.kind = "dismiss" /\ t.serial = serial))

NotificationSystem_remove(N, toastId) ==
    LET toastIndex == FindIndex(N.activeToasts, toastId) IN
    IF toastIndex = -1
    THEN N
    ELSE LET toast == N.activeToasts[toastIndex + 1] IN
         [N EXCEPT !.timers = Append(ClearDismissal(@, toast.serial),
                                     [due |-> 300 \div 100, kind |-> "splice",
                                      serial |-> toast.serial, id |-> toast.id,
                                      index |-> toastIndex])]

RECURSIVE RemoveEach(_, _, _)
\* activeToasts.forEach(toast => this.remove(toast.id)) from the k-th toast on
RemoveEach(N, toasts, k) ==
    IF k > Len(toasts)
    THEN N
    ELSE RemoveEach(NotificationSystem_remove(N, toasts[k].id), toasts, k + 1)

NotificationSystem_clear(N) == RemoveEach(N, N.activeToasts, 1)

\* the id createToast() makes for the toast of the n-th show()
ToastId(n) == "toast-" \o ToString(n)

\* show(message, type, {persistent, id}), the duration being the default one
NotificationSystem_show(N, persistent, id) ==
    LET serial == N.shown + 1
        toastId == IF id # Null THEN id ELSE ToastId(serial)
        same == IF id # Null THEN NotificationSystem_remove(N, id) ELSE N
        oldest == IF Len(same.activeToasts) >= same.maxToasts
                  THEN NotificationSystem_remove(same, same.activeToasts[1].id)
                  ELSE same
        duration == N.defaultDuration
    IN  Return([oldest EXCEPT
                    !.shown = serial,
                    !.attached = @ \cup {serial},
                    !.activeToasts = Append(@, [id |-> toastId, serial |-> serial]),
                    !.timers = IF ~persistent /\ duration > 0
                               THEN Append(@, [due |-> duration \div 100,
                                               kind |-> "dismiss", serial |-> serial,
                                               id |-> toastId, index |-> -1])
                               ELSE @],
               toastId)

\* the callback of timer t of the NotificationSystem
NotificationSystem_timeout(N, t) ==
    IF t.kind = "dismiss"
    THEN NotificationSystem_remove(N, t.id)
    ELSE [N EXCEPT !.attached = @ \ {t.serial},
                   !.activeToasts = ArraySplice(@, t.index)]

\* the ids given to show()
ToastIds == {Null, "x"}

\* history of the toasts
NoToastLog == [removed |-> {}, dismissed |-> {}, spliced |-> {}, cleared |-> FALSE]

(***************************************************************************)
(* History of the stack.                                                   *)
(***************************************************************************)
\* the ranks 1..n of n distinct numbers, in the same order
Ranks(a) == [i \in 1..Len(a) |-> Cardinality({j \in 1..Len(a) : a[j] <= a[i]})]

\* the ranks seen as the items of a stack of the same capacity: the methods
\* that permute or drop items are replayed on it
RankStack == [items |-> stackRank, maxSize |-> stack.maxSize]

\* no array is held by the caller
NoArray == [held |-> FALSE, elems |-> <<>>, copy |-> TRUE]

NoRun == [phase |-> "none", pushed |-> <<>>, popped |-> <<>>]

\* a run starts with a successful push onto the empty stack, goes on with
\* successful pushes, then with successful pops; any other call ends it
LifoAfterPush(element, r) ==
    IF r.thrown # NoError THEN NoRun
    ELSE IF Len(stack.items) = 0
    THEN [phase |-> "push", pushed |-> <<element>>, popped |-> <<>>]
    ELSE IF lifo.phase = "push"
    THEN [lifo EXCEPT !.pushed = Append(@, element)]
    ELSE NoRun

LifoAfterPop(r) ==
    IF r.thrown = NoError /\ lifo.phase \in {"push", "pop"}
       /\ Len(lifo.popped) < Len(lifo.pushed)
    THEN [lifo EXCEPT !.phase = "pop", !.popped = Append(@, r.ret)]
    ELSE NoRun

(***************************************************************************)
(* The state after construction.  The stack is explored from the capacity  *)
(* MaxSizeArg, the state reached by setMaxSize(MaxSizeArg) on a new stack. *)
(* The queue has no capacity setter: its maxSize field, 50 after           *)
(* construction, is scaled down to QueueCap.                               *)
(***************************************************************************)
InitContainers ==
    /\ stack = Stack_setMaxSize(Stack_constructor, MaxSizeArg).self
    /\ stackOut = [op |-> "new", arg |-> Undefined, n |-> 0,
                   ret |-> Undefined, thrown |-> NoError]
    /\ stackRank = <<>>
    /\ lifo = NoRun
    /\ reverseCalled = FALSE
    /\ stackArr = NoArray
    /\ queue = [Queue_constructor EXCEPT !.maxSize = QueueCap]
    /\ queueOut = [op |-> "new", arg |-> Undefined,
                   ret |-> Undefined, thrown |-> NoError]
    /\ enqLog = <<>>
    /\ deqLog = <<>>
    /\ queueArr = NoArray

InitStackDemo ==
    /\ stackDemo = StackDemo_constructor
    /\ stackDemoOut = [cmd |-> "new", emitted |-> <<>>, delivered |-> <<>>,
                       thrown |-> NoError]

InitQueueDemo ==
    /\ queueDemo = QueueDemo_constructor
    /\ queueDemoOut = [cmd |-> "new", arg |-> Undefined, delivered |-> <<>>,
                       fallback |-> <<>>, called |-> <<>>, thrown |-> NoError]

\* the page with utils/notifications.js loaded
InitNotifications ==
    /\ notifications = NotificationSystem_setDefaultDuration(
                           NotificationSystem_setMaxToasts(NotificationSystem_constructor,
                                                           MaxToastsArg).self,
                           DurationTicks * 100).self
    /\ toastOut = [op |-> "new", id |-> Null]
    /\ toastLog = NoToastLog

InitStacks ==
    /\ stacks = [s |-> Stack_setMaxSize(Stack_constructor, CopyCap).self,
                 t |-> Stack_constructor, shared |-> FALSE, made |-> "new"]
    /\ stacksOut = [op |-> "new", on |-> "t", arg |-> Undefined, thrown |-> NoError,
                    self |-> Stack_constructor, other |-> Stack_constructor]

Init ==
    /\ InitContainers
    /\ InitStackDemo
    /\ InitQueueDemo
    /\ InitNotifications
    /\ InitStacks
    /\ sink = NotificationSystemSink

(***************************************************************************)
(* Calls on the stack.                                                     *)
(***************************************************************************)
StackCall(name, arg, n, r) ==
    /\ stack' = r.self
    /\ stackOut' = [op |-> name, arg |-> arg, n |-> n,
                    ret |-> r.ret, thrown |-> r.thrown]
    /\ stackArr' = NoArray
    /\ UNCHANGED <<queueVars, demoVars>>

CallPush ==
    \E element \in Values :
        LET r == Stack_push(stack, element) IN
        /\ StackCall("push", element, 0, r)
        /\ stackRank' = IF r.thrown = NoError
                        THEN ArrayPush(stackRank, Len(stackRank) + 1)
                        ELSE stackRank
        /\ lifo' = LifoAfterPush(element, r)
        /\ UNCHANGED reverseCalled

CallPop ==
    LET r == Stack_pop(stack) IN
    /\ StackCall("pop", Undefined, 0, r)
    /\ stackRank' = Ranks(Stack_pop(RankStack).self.items)
    /\ lifo' = LifoAfterPop(r)
    /\ UNCHANGED reverseCalled

CallPeek ==
    /\ StackCall("peek", Undefined, 0, Stack_peek(stack))
    /\ lifo' = NoRun
    /\ UNCHANGED <<stackRank, reverseCalled>>

CallStackClear ==
    /\ StackCall("clear", Undefined, 0, Stack_clear(stack))
    /\ stackRank' = Ranks(Stack_clear(RankStack).self.items)
    /\ lifo' = NoRun
    /\ UNCHANGED reverseCalled

CallSetMaxSize ==
    \E size \in SizeArgs :
        /\ StackCall("setMaxSize", Undefined, size, Stack_setMaxSize(stack, size))
        /\ stackRank' = Ranks(Stack_setMaxSize(RankStack, size).self.items)
        /\ lifo' = NoRun
        /\ UNCHANGED reverseCalled

CallReverse ==
    /\ StackCall("reverse", Undefined, 0, Stack_reverse(stack))
    /\ stackRank' = Ranks(Stack_reverse(RankStack).self.items)
    /\ lifo' = NoRun
    /\ reverseCalled' = TRUE

\* a call of a query: the result is recorded, no history is touched but
\* the run of pushes and pops, which any other call ends
StackQuery(name, arg, r, shown) ==
    /\ StackCall(name, arg, 0, [r EXCEPT !.ret = shown])
    /\ lifo' = NoRun
    /\ UNCHANGED <<stackRank, reverseCalled>>

CallStackSize ==
    StackQuery("size", Undefined, Return(stack, Stack_size(stack)),
               Number(Stack_size(stack)))

CallStackIsEmpty ==
    StackQuery("isEmpty", Undefined, Return(stack, Stack_isEmpty(stack)),
               Bool(Stack_isEmpty(stack)))

CallIsFull ==
    StackQuery("isFull", Undefined, Return(stack, Stack_isFull(stack)),
               Bool(Stack_isFull(stack)))

CallStackContains ==
    \E element \in Values :
        LET r == Stack_contains(stack, element) IN
        StackQuery("contains", element, r, Bool(r.ret))

CallStackSearch ==
    \E element \in Values :
        LET r == Stack_search(stack, element) IN
        StackQuery("search", element, r, Number(r.ret))

\* toArray hands an array to the caller
CallStackToArray ==
    LET r == Stack_toArray(stack) IN
    /\ stack' = r.self
    /\ stackOut' = [op |-> "toArray", arg |-> Undefined, n |-> 0,
                    ret |-> ArrayToken, thrown |-> r.thrown]
    /\ stackArr' = [held |-> TRUE, elems |-> r.ret.elems, copy |-> r.ret.copy]
    /\ lifo' = NoRun
    /\ UNCHANGED <<stackRank, reverseCalled>>
    /\ UNCHANGED <<queueVars, demoVars>>

\* the caller pushes a value onto the array toArray returned, then drops
\* it; the items change with it when the array is not a copy
MutateStackArray ==
    \E value \in Values :
        /\ stackArr.held
        /\ stackArr' = [held |-> FALSE, elems |-> ArrayPush(stackArr.elems, value),
                        copy |-> stackArr.copy]
        /\ stack' = IF stackArr.copy
                    THEN stack
                    ELSE [stack EXCEPT !.items = ArrayPush(stack.items, value)]
        /\ stackRank' = IF stackArr.copy
                        THEN stackRank
                        ELSE ArrayPush(stackRank, Len(stackRank) + 1)
        /\ stackOut' = [op |-> "mutateArray", arg |-> value, n |-> 0,
                        ret |-> Undefined, thrown |-> NoError]
        /\ lifo' = NoRun
        /\ UNCHANGED reverseCalled
        /\ UNCHANGED <<queueVars, demoVars>>

NextStack ==
    \/ CallPush
    \/ CallPop
    \/ CallPeek
    \/ CallStackClear
    \/ CallSetMaxSize
    \/ CallReverse
    \/ CallStackSize
    \/ CallStackIsEmpty
    \/ CallIsFull
    \/ CallStackContains
    \/ CallStackSearch
    \/ CallStackToArray
    \/ MutateStackArray

SpecStack == Init /\ [][NextStack]_vars

(***************************************************************************)
(* Calls on the queue.                                                     *)
(***************************************************************************)
QueueCall(name, arg, r) ==
    /\ queue' = r.self
    /\ queueOut' = [op |-> name, arg |-> arg, ret |-> r.ret, thrown |-> r.thrown]
    /\ queueArr' = NoArray
    /\ UNCHANGED <<stackVars, demoVars>>

CallEnqueue ==
    \E item \in Values :
        LET r == Queue_enqueue(queue, item) IN
        /\ r.thrown # NoError \/ Len(enqLog) < MaxEnq
        /\ QueueCall("enqueue", item, r)
        /\ enqLog' = IF r.thrown = NoError THEN Append(enqLog, item) ELSE enqLog
        /\ UNCHANGED deqLog

CallDequeue ==
    LET r == Queue_dequeue(queue) IN
    /\ QueueCall("dequeue", Undefined, r)
    /\ deqLog' = IF Len(r.self.items) < Len(queue.items)
                 THEN Append(deqLog, r.ret)
                 ELSE deqLog
    /\ UNCHANGED enqLog

CallFront ==
    /\ QueueCall("front", Undefined, Queue_front(queue))
    /\ UNCHANGED <<enqLog, deqLog>>

CallRear ==
    /\ QueueCall("rear", Undefined, Queue_rear(queue))
    /\ UNCHANGED <<enqLog, deqLog>>

CallQueueClear ==
    /\ QueueCall("clear", Undefined, Queue_clear(queue))
    /\ enqLog' = <<>>
    /\ deqLog' = <<>>

QueueQuery(name, arg, r, shown) ==
    /\ QueueCall(name, arg, [r EXCEPT !.ret = shown])
    /\ UNCHANGED <<enqLog, deqLog>>

CallQueueSize ==
    QueueQuery("size", Undefined, Return(queue, Queue_size(queue)),
               Number(Queue_size(queue)))

CallQueueIsEmpty ==
    QueueQuery("isEmpty", Undefined, Return(queue, Queue_isEmpty(queue)),
               Bool(Queue_isEmpty(queue)))

CallQueueContains ==
    \E item \in Values :
        LET r == Queue_contains(queue, item) IN
        QueueQuery("contains", item, r, Bool(r.ret))

CallQueueSearch ==
    \E item \in Values :
        LET r == Queue_search(queue, item) IN
        QueueQuery("search", item, r, Number(r.ret))

CallQueueToArray ==
    LET r == Queue_toArray(queue) IN
    /\ queue' = r.self
    /\ queueOut' = [op |-> "toArray", arg |-> Undefined,
                    ret |-> ArrayToken, thrown |-> r.thrown]
    /\ queueArr' = [held |-> TRUE, elems |-> r.ret.elems, copy |-> r.ret.copy]
    /\ UNCHANGED <<enqLog, deqLog>>
    /\ UNCHANGED <<stackVars, demoVars>>

MutateQueueArray ==
    \E value \in Values :
        /\ queueArr.held
        /\ queueArr' = [held |-> FALSE, elems |-> ArrayPush(queueArr.elems, value),
                        copy |-> queueArr.copy]
        /\ queue' = IF queueArr.copy
                    THEN queue
                    ELSE [queue EXCEPT !.items = ArrayPush(queue.items, value)]
        /\ queueOut' = [op |-> "mutateArray", arg |-> value,
                        ret |-> Undefined, thrown |-> NoError]
        /\ UNCHANGED <<enqLog, deqLog>>
        /\ UNCHANGED <<stackVars, demoVars>>

NextQueue ==
    \/ CallEnqueue
    \/ CallDequeue
    \/ CallFront
    \/ CallRear
    \/ CallQueueClear
    \/ CallQueueSize
    \/ CallQueueIsEmpty
    \/ CallQueueContains
    \/ CallQueueSearch
    \/ CallQueueToArray
    \/ MutateQueueArray

SpecQueue == Init /\ [][NextQueue]_vars

(***************************************************************************)
(* The two containers side by side.  They share no state, so a behaviour   *)
(* exercises one of them: the stack while the queue is still new, or the   *)
(* queue while the stack is still new.                                     *)
(***************************************************************************)
NextContainers ==
    \/ queueOut.op = "new" /\ NextStack
    \/ stackOut.op = "new" /\ NextQueue

SpecContainers == Init /\ [][NextContainers]_vars

(***************************************************************************)
(* The StackDemo: the user types into the input field, and the four        *)
(* commands, called by the buttons, by the Enter key or by a script.  In   *)
(* SpecStackDemo a command comes once the animations of the commands       *)
(* before it have ended; SpecStackView has the commands at any time.       *)
(***************************************************************************)
InitDemo ==
    /\ InitContainers
    /\ InitStackDemo
    /\ InitQueueDemo
    /\ InitNotifications
    /\ InitStacks
    /\ sink \in Sinks

StackDemoCommand(name, c) ==
    /\ stackDemo' = c.self
    /\ stackDemoOut' = [cmd |-> name, emitted |-> c.emitted, delivered |-> c.delivered,
                        thrown |-> c.thrown]
    /\ UNCHANGED <<sink, notifVars, copyVars, stackVars, queueVars, queueDemoVars>>

\* the input event: the field takes the typed text and validateInput() runs
TypeStackInput ==
    \E text \in StackInputs :
        /\ stackDemo' = StackDemo_validateInput([stackDemo EXCEPT !.input = text])
        /\ stackDemoOut' = [cmd |-> "input", emitted |-> <<>>, delivered |-> <<>>,
                            thrown |-> NoError]
        /\ UNCHANGED <<sink, notifVars, copyVars, stackVars, queueVars, queueDemoVars>>

\* no animation is under way
Quiescent == stackDemo.timers = <<>>

DemoPush ==
    /\ Quiescent
    /\ StackDemoCommand("push", StackDemo_push(stackDemo, sink))

DemoPop ==
    /\ Quiescent
    /\ StackDemoCommand("pop", StackDemo_pop(stackDemo, sink))

DemoPeek ==
    /\ Quiescent
    /\ StackDemoCommand("peek", StackDemo_peek(stackDemo, sink))

DemoClear ==
    /\ Quiescent
    /\ StackDemoCommand("clear", StackDemo_clear(stackDemo, sink))

\* the timers whose time has come fire in the order they were set
Due(timers) == {i \in 1..Len(timers) : timers[i].due = 0}

StackTimeout ==
    /\ Due(stackDemo.timers) # {}
    /\ LET i == CHOOSE j \in Due(stackDemo.timers) :
                     \A k \in Due(stackDemo.timers) : j <= k
           t == stackDemo.timers[i]
           rest == [stackDemo EXCEPT !.timers = SubSeq(@, 1, i - 1)
                                                \o SubSeq(@, i + 1, Len(@))]
       IN  stackDemo' = StackDemo_timeout(rest, t)
    /\ stackDemoOut' = [cmd |-> "timeout", emitted |-> <<>>, delivered |-> <<>>,
                        thrown |-> NoError]
    /\ UNCHANGED <<sink, notifVars, copyVars, stackVars, queueVars, queueDemoVars>>

\* 100 ms pass while no timer is due
StackTick ==
    /\ stackDemo.timers # <<>>
    /\ Due(stackDemo.timers) = {}
    /\ stackDemo' = [stackDemo EXCEPT !.timers =
                         [i \in 1..Len(@) |-> [@[i] EXCEPT !.due = @ - 1]]]
    /\ stackDemoOut' = [cmd |-> "tick", emitted |-> <<>>, delivered |-> <<>>,
                        thrown |-> NoError]
    /\ UNCHANGED <<sink, notifVars, copyVars, stackVars, queueVars, queueDemoVars>>

NextStackDemo ==
    \/ TypeStackInput
    \/ DemoPush
    \/ DemoPop
    \/ DemoPeek
    \/ DemoClear
    \/ StackTimeout
    \/ StackTick

SpecStackDemo == InitDemo /\ [][NextStackDemo]_vars

\* what the user types into the input field in SpecStackView
ViewInputs == {"A", " B "}

\* the user types a text and presses Enter: the input event, then push()
ViewPush ==
    \E text \in ViewInputs :
        /\ Len(stackDemo.container) < MaxRendered
        /\ StackDemoCommand("push",
            StackDemo_push(StackDemo_validateInput([stackDemo EXCEPT !.input = text]), sink))

ViewPop ==
    /\ Len(stackDemo.timers) < MaxPending
    /\ StackDemoCommand("pop", StackDemo_pop(stackDemo, sink))

ViewClear ==
    /\ Quiescent
    /\ StackDemoCommand("clear", StackDemo_clear(stackDemo, sink))

NextStackView ==
    \/ ViewPush
    \/ ViewPop
    \/ ViewClear
    \/ StackTimeout
    \/ StackTick

SpecStackView == Init /\ [][NextStackView]_vars

(***************************************************************************)
(* The QueueDemo: the user types into the input field and clicks the       *)
(* enqueue button, and the four commands, called by the buttons or by a    *)
(* script.                                                                 *)
(***************************************************************************)
QueueDemoCommand(name, arg, c) ==
    /\ queueDemo' = c.self
    /\ queueDemoOut' = [cmd |-> name, arg |-> arg, delivered |-> c.delivered,
                        fallback |-> c.fallback, called |-> c.called,
                        thrown |-> c.thrown]
    /\ UNCHANGED <<sink, notifVars, copyVars, stackVars, queueVars, stackDemoVars>>

TypeQueueInput ==
    \E text \in QueueInputs :
        /\ queueDemo' = [queueDemo EXCEPT !.inputField = text]
        /\ queueDemoOut' = [cmd |-> "input", arg |-> text, delivered |-> <<>>,
                            fallback |-> <<>>, called |-> <<>>, thrown |-> NoError]
        /\ UNCHANGED <<sink, notifVars, copyVars, stackVars, queueVars, stackDemoVars>>

\* a script registers a callback
SetCallbacks ==
    \E name \in CallbackNames, behaviour \in CallbackBehaviours :
        /\ queueDemo' = QueueDemo_setCallbacks(queueDemo, name, behaviour)
        /\ queueDemoOut' = [cmd |-> "setCallbacks", arg |-> Undefined, delivered |-> <<>>,
                            fallback |-> <<>>, called |-> <<>>, thrown |-> NoError]
        /\ UNCHANGED <<sink, notifVars, copyVars, stackVars, queueVars, stackDemoVars>>

ClickEnqueue ==
    QueueDemoCommand("click", queueDemo.inputField, QueueDemo_enqueueClick(queueDemo, sink))

DemoEnqueue ==
    \E value \in QueueDemoValues :
        QueueDemoCommand("enqueue", value, QueueDemo_enqueue(queueDemo, sink, value))

DemoDequeue == QueueDemoCommand("dequeue", Undefined, QueueDemo_dequeue(queueDemo, sink))

DemoViewFront == QueueDemoCommand("viewFront", Undefined, QueueDemo_viewFront(queueDemo, sink))

DemoQueueClear == QueueDemoCommand("clear", Undefined, QueueDemo_clear(queueDemo, sink))

NextQueueDemo ==
    \/ TypeQueueInput
    \/ SetCallbacks
    \/ ClickEnqueue
    \/ DemoEnqueue
    \/ DemoDequeue
    \/ DemoViewFront
    \/ DemoQueueClear

SpecQueueDemo == InitDemo /\ [][NextQueueDemo]_vars

(***************************************************************************)
(* Both demos of the page, for the properties that speak of the two: a     *)
(* behaviour exercises the one or the other.                               *)
(***************************************************************************)
NextDemos ==
    \/ queueDemoOut.cmd = "new" /\ NextStackDemo
    \/ stackDemoOut.cmd = "new" /\ NextQueueDemo

SpecDemos == InitDemo /\ [][NextDemos]_vars

(***************************************************************************)
(* The NotificationSystem: calls of show(), remove() and clear(), and its  *)
(* timers.                                                                 *)
(***************************************************************************)
\* the toasts the pending "splice" timers hold, in the order of the timers
Removals(timers) ==
    LET splices == SelectSeq(timers, LAMBDA t : t.kind = "splice")
    IN  [i \in 1..Len(splices) |-> splices[i].serial]

\* the toasts remove() set a timer for between two states of the timers
NewRemovals(before, after) ==
    {Removals(after)[i] : i \in (Len(Removals(before)) + 1)..Len(Removals(after))}

ToastCall(name, id, N, before, log) ==
    /\ notifications' = N
    /\ toastOut' = [op |-> name, id |-> id]
    /\ toastLog' = [log EXCEPT !.removed = @ \cup NewRemovals(before, N.timers)]
    /\ UNCHANGED <<sink, copyVars, stackVars, queueVars, stackDemoVars, queueDemoVars>>

CallShow ==
    /\ notifications.shown < MaxShows
    /\ Len(notifications.timers) < MaxToastTimers
    /\ \E persistent \in BOOLEAN, id \in ToastIds :
           LET c == NotificationSystem_show(notifications, persistent, id)
           IN  ToastCall("show", c.ret, c.self, notifications.timers,
                         [toastLog EXCEPT !.cleared = FALSE])

\* remove(id) for the id of an active toast, as the close button of the toast
\* and a caller that kept the id show() returned do
CallRemove ==
    /\ Len(notifications.timers) < MaxToastTimers
    /\ \E id \in {notifications.activeToasts[i].id :
                     i \in 1..Len(notifications.activeToasts)} :
           ToastCall("remove", id, NotificationSystem_remove(notifications, id),
                     notifications.timers, toastLog)

CallToastsClear ==
    /\ Len(NotificationSystem_clear(notifications).timers) <= MaxToastTimers
    /\ ToastCall("clear", Null, NotificationSystem_clear(notifications),
                 notifications.timers, [toastLog EXCEPT !.cleared = TRUE])

ToastTimeout ==
    /\ Due(notifications.timers) # {}
    /\ LET i == CHOOSE j \in Due(notifications.timers) :
                     \A k \in Due(notifications.timers) : j <= k
           t == notifications.timers[i]
           rest == [notifications EXCEPT !.timers = SubSeq(@, 1, i - 1)
                                                    \o SubSeq(@, i + 1, Len(@))]
       IN  ToastCall(t.kind, Null, NotificationSystem_timeout(rest, t), rest.timers,
                     IF t.kind = "dismiss"
                     THEN [toastLog EXCEPT !.dismissed = @ \cup {t.serial}]
                     ELSE [toastLog EXCEPT !.spliced = @ \cup {t.serial}])

\* 100 ms pass while no timer is due
ToastTick ==
    /\ notifications.timers # <<>>
    /\ Due(notifications.timers) = {}
    /\ ToastCall("tick", Null,
                 [notifications EXCEPT !.timers =
                      [i \in 1..Len(@) |-> [@[i] EXCEPT !.due = @ - 1]]],
                 notifications.timers, toastLog)

NextNotifications ==
    \/ CallShow
    \/ CallRemove
    \/ CallToastsClear
    \/ ToastTimeout
    \/ ToastTick

SpecNotifications == Init /\ [][NextNotifications]_vars

(***************************************************************************)
(* Two stacks: s, and the stack t that clone(), merge() or fromJSON() last *)
(* returned.  push, pop and reverse change the items array in place, so    *)
(* they show in the other stack when the two share the array; clear and a  *)
(* trimming setMaxSize give the stack a new array.                         *)
(***************************************************************************)
Names == {"s", "t"}
Other(on) == IF on = "s" THEN "t" ELSE "s"

\* call name on stacks[on] with result r; inPlace when this.items is still
\* the same array after the call
TwoStacksCall(name, on, arg, r, inPlace) ==
    /\ stacks' = [stacks EXCEPT
                      ![on] = r.self,
                      ![Other(on)] = IF stacks.shared /\ inPlace
                                     THEN [@ EXCEPT !.items = r.self.items]
                                     ELSE @,
                      !.shared = @ /\ inPlace]
    /\ stacksOut' = [op |-> name, on |-> on, arg |-> arg, thrown |-> r.thrown,
                     self |-> Stack_constructor, other |-> Stack_constructor]
    /\ UNCHANGED <<sink, notifVars, stackVars, queueVars, stackDemoVars, queueDemoVars>>

\* t becomes the stack made by the call name on s
TwoStacksMake(name, on, made, copy, thrown) ==
    /\ stacks' = IF thrown = NoError
                 THEN [stacks EXCEPT !.t = made, !.shared = ~copy, !.made = name]
                 ELSE stacks
    /\ stacksOut' = [op |-> name, on |-> on, arg |-> Undefined, thrown |-> thrown,
                     self |-> Stack_constructor, other |-> Stack_constructor]
    /\ UNCHANGED <<sink, notifVars, stackVars, queueVars, stackDemoVars, queueDemoVars>>

TwoPush ==
    \E on \in Names, element \in Elements \cup {Null} :
        /\ Len(stacks[on].items) < CopyCap \/ Stack_isFull(stacks[on])
        /\ TwoStacksCall("push", on, element, Stack_push(stacks[on], element), TRUE)

TwoPop ==
    \E on \in Names :
        TwoStacksCall("pop", on, Undefined, Stack_pop(stacks[on]), TRUE)

TwoReverse ==
    \E on \in Names :
        TwoStacksCall("reverse", on, Undefined, Stack_reverse(stacks[on]), TRUE)

TwoClear ==
    \E on \in Names :
        TwoStacksCall("clear", on, Undefined, Stack_clear(stacks[on]), FALSE)

TwoSetMaxSize ==
    \E on \in Names, size \in 0..CopyCap :
        LET r == Stack_setMaxSize(stacks[on], size) IN
        TwoStacksCall("setMaxSize", on, Number(size), r,
                      r.thrown # NoError \/ Len(stacks[on].items) <= size)

\* t = s.clone()
TwoClone ==
    LET c == Stack_clone(stacks.s) IN
    TwoStacksMake("clone", "s", c.ret, c.copy, NoError)

\* t = Stack.fromJSON(s.toJSON())
TwoRoundTrip ==
    LET c == Stack_fromJSON(Stack_toJSON(stacks.s)) IN
    TwoStacksMake("roundTrip", "s", c.ret, c.copy, c.thrown)

\* the objects handed to Stack.fromJSON(): null, an object of another type,
\* and Stack representations with or without items and maxSize
JsonItems == {<<>>, <<"A">>, <<Null>>, <<"A", "B">>}
Jsons ==
    {[null |-> n, type |-> type, hasItems |-> FALSE, items |-> <<>>, copy |-> TRUE,
      maxSize |-> 0] : n \in BOOLEAN, type \in {"Stack", "Queue"}}
    \cup {[null |-> FALSE, type |-> "Stack", hasItems |-> TRUE, items |-> items,
           copy |-> TRUE, maxSize |-> maxSize] :
              items \in JsonItems, maxSize \in {-1, 0, 1, CopyCap}}

\* t = Stack.fromJSON(json)
TwoFromJSON ==
    \E json \in Jsons :
        LET c == Stack_fromJSON(json) IN
        TwoStacksMake("fromJSON", "t", c.ret, c.copy, c.thrown)

\* t = this.merge(other) for this and other among s and t, or for an other
\* that is no Stack
TwoMerge ==
    \E on \in Names, arg \in Names, class \in {"Stack", "Queue"} :
        LET other == IF class = "Stack" THEN stacks[arg] ELSE Queue_constructor
            r == Stack_merge(stacks[on], class, other)
        IN  /\ class = "Queue" => arg = "s"
            /\ Len(r.ret.items) <= CopyCap
            /\ stacks' = IF r.thrown = NoError
                         THEN [stacks EXCEPT ![on] = r.self, !.t = r.ret,
                                             !.shared = FALSE, !.made = "merge"]
                         ELSE [stacks EXCEPT ![on] = r.self]
            /\ stacksOut' = [op |-> "merge", on |-> on,
                             arg |-> IF class = "Stack" THEN arg ELSE class,
                             thrown |-> r.thrown, self |-> r.self,
                             other |-> r.other]
            /\ UNCHANGED <<sink, notifVars, stackVars, queueVars, stackDemoVars,
                           queueDemoVars>>

NextTwoStacks ==
    \/ TwoPush
    \/ TwoPop
    \/ TwoReverse
    \/ TwoClear
    \/ TwoSetMaxSize
    \/ TwoClone
    \/ TwoRoundTrip
    \/ TwoFromJSON
    \/ TwoMerge

SpecTwoStacks == Init /\ [][NextTwoStacks]_vars

(***************************************************************************)
(* Properties.                                                             *)
(***************************************************************************)
EmptyValues == {Undefined, Null, ""}

\* the position in stack.items of the most recently pushed element that is
\* still on the stack (the stack is non-empty)
MostRecent == CHOOSE i \in 1..Len(stackRank) : stackRank[i] = Len(stackRank)

\* the array a without its i-th element
RemoveAt(a, i) == SubSeq(a, 1, i - 1) \o SubSeq(a, i + 1, Len(a))

\* C1: in every reachable state of the stack, whatever calls of push, pop,
\* peek, clear, setMaxSize and reverse succeeded or threw before,
\* 0 <= size() <= maxSize.
C1_StackCapacityInvariant ==
    /\ 0 <= Stack_size(stack)
    /\ Stack_size(stack) <= stack.maxSize

\* a setMaxSize below the occupancy was accepted and the full stack then
\* refused a push
C1_Witness ==
    /\ stackOut.op = "push"
    /\ stackOut.thrown = StackOverflow
    /\ Stack_size(stack) = stack.maxSize
    /\ stack.maxSize < MaxSizeArg

\* C2: in every reachable state of the queue, whatever calls of enqueue,
\* dequeue, front, rear and clear succeeded or threw before,
\* 0 <= size() <= maxSize.
C2_QueueCapacityInvariant ==
    /\ 0 <= Queue_size(queue)
    /\ Queue_size(queue) <= queue.maxSize

\* the full queue refused an enqueue
C2_Witness ==
    /\ queueOut.op = "enqueue"
    /\ queueOut.thrown = QueueOverflow
    /\ Queue_size(queue) = queue.maxSize

\* C3: LIFO law: after n successful pushes onto the empty stack, the pops
\* that follow return the pushed values in reverse order of insertion, the
\* stack holds the values not yet popped, and after n pops it is empty.
C3_LifoLaw ==
    lifo.phase = "pop" =>
        LET n == Len(lifo.pushed)
            k == Len(lifo.popped)
        IN  /\ k <= n
            /\ \A i \in 1..k : lifo.popped[i] = lifo.pushed[n + 1 - i]
            /\ stack.items = SubSeq(lifo.pushed, 1, n - k)
            /\ (k = n => Stack_isEmpty(stack))

\* a full stack of values that are not all equal was popped until empty
C3_Witness ==
    /\ lifo.phase = "pop"
    /\ Len(lifo.pushed) = stack.maxSize
    /\ Len(lifo.popped) = Len(lifo.pushed)
    /\ lifo.pushed[1] # lifo.pushed[Len(lifo.pushed)]

\* C4: FIFO law: in every interleaving of enqueue and dequeue calls with no
\* clear, the k-th dequeue that removes an element returns the k-th
\* successfully enqueued value.
C4_FifoLaw ==
    /\ Len(deqLog) <= Len(enqLog)
    /\ \A k \in 1..Len(deqLog) : deqLog[k] = enqLog[k]

\* every logged enqueue was dequeued, the values were not all equal, and more
\* values went through the queue than it can hold at once
C4_Witness ==
    /\ Len(enqLog) = MaxEnq
    /\ Len(deqLog) = MaxEnq
    /\ deqLog[1] # deqLog[2]

\* C5: push on a stack with size() = maxSize throws the overflow error,
\* whatever the value, and leaves items and maxSize as they were.
C5_PushOnFull ==
    [][(stackOut'.op = "push" /\ Stack_size(stack) = stack.maxSize) =>
         /\ stackOut'.thrown = StackOverflow
         /\ stack'.items = stack.items
         /\ Stack_size(stack') = Stack_size(stack)
         /\ stack'.maxSize = stack.maxSize]_vars

\* a push of an element was refused by the full stack
C5_Witness ==
    /\ stackOut.op = "push"
    /\ stackOut.arg \in Elements
    /\ stackOut.thrown = StackOverflow
    /\ Stack_size(stack) = stack.maxSize

\* a successful push: value is appended at the top and size grows by 1
PushAppends ==
    /\ stackOut'.thrown = NoError
    /\ stack'.items = Append(stack.items, stackOut'.arg)
    /\ Stack_size(stack') = Stack_size(stack) + 1
    /\ stack'.maxSize = stack.maxSize

\* C6, as claimed: push of an empty or absent value throws the invalid
\* element error and leaves the stack unchanged; push of any other value on
\* a non-full stack appends it at the top.
C6_Original ==
    [][stackOut'.op = "push" =>
         IF stackOut'.arg \in EmptyValues
         THEN stackOut'.thrown = StackInvalidElement /\ stack' = stack
         ELSE (~Stack_isFull(stack) => PushAppends)]_vars

\* C6, amended: push of an empty or absent value leaves the stack unchanged;
\* it throws the invalid element error on a non-full stack and the overflow
\* error on a full one.  Push of any other value on a non-full stack appends
\* it at the top and size grows by exactly 1.
C6_PushValue ==
    [][stackOut'.op = "push" =>
         IF stackOut'.arg \in EmptyValues
         THEN /\ stack' = stack
              /\ stackOut'.thrown = IF Stack_isFull(stack)
                                    THEN StackOverflow
                                    ELSE StackInvalidElement
         ELSE (~Stack_isFull(stack) => PushAppends)]_vars

\* the empty string was refused as invalid by a stack that holds an element
C6_Witness ==
    /\ stackOut.op = "push"
    /\ stackOut.arg = ""
    /\ stackOut.thrown = StackInvalidElement
    /\ Stack_size(stack) > 0

\* pop on the empty stack: underflow, the stack stays empty and accepts a push
PopOnEmpty ==
    /\ stackOut'.thrown = StackUnderflow
    /\ stack' = stack
    /\ Stack_push(stack', "A").thrown = NoError

\* C7, as claimed: pop on the empty stack throws underflow and leaves it
\* empty and usable; on a non-empty stack it returns the most recently pushed
\* element not yet removed and removes exactly that element.
C7_Original ==
    [][stackOut'.op = "pop" =>
         IF Stack_isEmpty(stack)
         THEN PopOnEmpty
         ELSE /\ stackOut'.thrown = NoError
              /\ stackOut'.ret = stack.items[MostRecent]
              /\ stack'.items = RemoveAt(stack.items, MostRecent)
              /\ stack'.maxSize = stack.maxSize]_vars

\* C7, amended: pop on the empty stack throws underflow and leaves it empty
\* and usable; on a non-empty stack it returns the top element (the last of
\* items), removes exactly that element and leaves the others in order; the
\* top is the most recently pushed element not yet removed as long as
\* reverse() has not been called on the stack.
C7_Pop ==
    [][stackOut'.op = "pop" =>
         IF Stack_isEmpty(stack)
         THEN PopOnEmpty
         ELSE /\ stackOut'.thrown = NoError
              /\ stackOut'.ret = stack.items[Len(stack.items)]
              /\ stack'.items = RemoveAt(stack.items, Len(stack.items))
              /\ stack'.maxSize = stack.maxSize
              /\ (~reverseCalled => MostRecent = Len(stack.items))]_vars

\* pop threw underflow on the empty stack of a stack never reversed
C7_Witness ==
    /\ stackOut.op = "pop"
    /\ stackOut.thrown = StackUnderflow
    /\ Stack_isEmpty(stack)
    /\ ~reverseCalled

\* C8: dequeue never throws; on the empty queue it returns null and leaves
\* the queue unchanged; on a non-empty queue it returns the front element and
\* removes exactly that element.
C8_Dequeue ==
    [][queueOut'.op = "dequeue" =>
         /\ queueOut'.thrown = NoError
         /\ IF Queue_isEmpty(queue)
            THEN queueOut'.ret = Null /\ queue' = queue
            ELSE /\ queueOut'.ret = queue.items[1]
                 /\ queue'.items = RemoveAt(queue.items, 1)
                 /\ queue'.maxSize = queue.maxSize]_vars

\* dequeue was called on a queue that nothing had been enqueued into
C8_Witness ==
    /\ queueOut.op = "dequeue"
    /\ enqLog = <<>>
    /\ queueOut.ret = Null
    /\ queueOut.thrown = NoError
    /\ Queue_isEmpty(queue)

\* C9: enqueue on a queue with size() = maxSize throws the overflow error
\* and leaves the queue unchanged; otherwise value becomes the rear, size
\* grows by exactly 1, the elements already present keep their order and
\* front() is unchanged when the queue was non-empty.
C9_Enqueue ==
    [][queueOut'.op = "enqueue" =>
         IF Queue_size(queue) = queue.maxSize
         THEN queueOut'.thrown = QueueOverflow /\ queue' = queue
         ELSE /\ queueOut'.thrown = NoError
              /\ Queue_rear(queue').ret = queueOut'.arg
              /\ Queue_size(queue') = Queue_size(queue) + 1
              /\ SubSeq(queue'.items, 1, Len(queue.items)) = queue.items
              /\ (~Queue_isEmpty(queue) =>
                    Queue_front(queue').ret = Queue_front(queue).ret)
              /\ queue'.maxSize = queue.maxSize]_vars

\* a value was enqueued behind a different front element
C9_Witness ==
    /\ queueOut.op = "enqueue"
    /\ queueOut.thrown = NoError
    /\ Queue_size(queue) >= 2
    /\ queue.items[Len(queue.items)] = queueOut.arg
    /\ queue.items[1] # queueOut.arg

\* C10: peek never throws and leaves the stack unchanged; it returns null on
\* the empty stack and otherwise the value that a pop called right after it
\* returns.
C10_Peek ==
    [][stackOut'.op = "peek" =>
         /\ stackOut'.thrown = NoError
         /\ stack' = stack
         /\ IF Stack_isEmpty(stack)
            THEN stackOut'.ret = Null
            ELSE stackOut'.ret = Stack_pop(stack').ret]_vars

\* peek returned the top of a stack whose bottom is a different value
C10_Witness ==
    /\ stackOut.op = "peek"
    /\ Stack_size(stack) >= 2
    /\ stackOut.ret = stack.items[Len(stack.items)]
    /\ stackOut.ret # stack.items[1]

\* C11: front and rear never throw and never change the queue; on the empty
\* queue both return null; on a non-empty queue front returns the oldest
\* element still present, which is the one the next dequeue returns, and
\* rear returns the most recently enqueued element.
C11_FrontRear ==
    [][queueOut'.op \in {"front", "rear"} =>
         /\ queueOut'.thrown = NoError
         /\ queue' = queue
         /\ IF Queue_isEmpty(queue)
            THEN queueOut'.ret = Null
            ELSE IF queueOut'.op = "front"
            THEN /\ queueOut'.ret = enqLog[Len(deqLog) + 1]
                 /\ queueOut'.ret = Queue_dequeue(queue').ret
            ELSE queueOut'.ret = enqLog[Len(enqLog)]]_vars

\* rear returned the newest of several elements, after a dequeue, and the
\* front element is a different value
C11_Witness ==
    /\ queueOut.op = "rear"
    /\ Len(deqLog) >= 1
    /\ Queue_size(queue) >= 2
    /\ queueOut.ret = queue.items[Len(queue.items)]
    /\ queueOut.ret # queue.items[1]

\* C12: clear never throws, on the stack and on the queue, and in the state
\* it leaves every query reports the empty container: size() is 0, isEmpty()
\* is true and peek(), front() and rear() return null.
C12_ClearEmpties ==
    /\ stackOut.op = "clear" =>
         /\ stackOut.thrown = NoError
         /\ Stack_size(stack) = 0
         /\ Stack_isEmpty(stack)
         /\ Stack_peek(stack).ret = Null
    /\ queueOut.op = "clear" =>
         /\ queueOut.thrown = NoError
         /\ Queue_size(queue) = 0
         /\ Queue_isEmpty(queue)
         /\ Queue_front(queue).ret = Null
         /\ Queue_rear(queue).ret = Null

\* the queue was cleared
C12_Witness ==
    /\ queueOut.op = "clear"
    /\ queueOut.thrown = NoError
    /\ Queue_isEmpty(queue)

\* C13: Stack.clear changes the items only and is idempotent: maxSize is
\* the same after clear as before, and a second clear leaves the state the
\* first one produced.
C13_ClearIdempotent ==
    [][stackOut'.op = "clear" =>
         /\ stack'.maxSize = stack.maxSize
         /\ Stack_clear(stack').self = stack'
         /\ Stack_clear(Stack_clear(stack).self).self = Stack_clear(stack).self]_vars

\* a stack whose capacity had been lowered was cleared
C13_Witness ==
    /\ stackOut.op = "clear"
    /\ Stack_isEmpty(stack)
    /\ stack.maxSize < MaxSizeArg

\* the queries of the two classes
StackQueries == {"size", "isEmpty", "isFull", "contains", "search", "toArray"}
QueueQueries == {"size", "isEmpty", "contains", "search", "toArray"}

\* C14: the queries size, isEmpty, isFull, contains, search and toArray of
\* the stack and size, isEmpty, contains, search and toArray of the queue
\* never throw and leave items and maxSize unchanged, for every argument; and
\* changing the array toArray returned leaves the container unchanged.
C14_QueriesPure ==
    [][/\ stackOut'.op \in StackQueries \cup {"mutateArray"} =>
            /\ stackOut'.thrown = NoError
            /\ stack'.items = stack.items
            /\ stack'.maxSize = stack.maxSize
       /\ queueOut'.op \in QueueQueries \cup {"mutateArray"} =>
            /\ queueOut'.thrown = NoError
            /\ queue'.items = queue.items
            /\ queue'.maxSize = queue.maxSize]_vars

\* the caller changed the array returned by toArray of a non-empty stack,
\* and the array now differs from the items
C14_Witness ==
    /\ stackOut.op = "mutateArray"
    /\ Stack_size(stack) >= 1
    /\ Len(stackArr.elems) = Stack_size(stack) + 1

\* the positions of value in the array a
Occurrences(a, value) == {i \in 1..Len(a) : a[i] = value}

\* the largest and the smallest element of a non-empty set of numbers
Max(set) == CHOOSE m \in set : \A k \in set : k <= m
Min(set) == CHOOSE m \in set : \A k \in set : m <= k

\* C15: for every value, Stack.search returns -1 exactly when contains is
\* false and otherwise the 0-based distance from the top of the occurrence
\* nearest to the top; search(peek()) is 0 on every non-empty stack.
C15_StackSearch ==
    /\ \A value \in Values :
         LET found == Stack_search(stack, value).ret
             occ == Occurrences(stack.items, value)
         IN  /\ (found = -1) <=> ~Stack_contains(stack, value).ret
             /\ Stack_contains(stack, value).ret <=> occ # {}
             /\ occ # {} => found = Len(stack.items) - Max(occ)
    /\ ~Stack_isEmpty(stack) => Stack_search(stack, Stack_peek(stack).ret).ret = 0

\* search found, at distance 1, a value that is also at the bottom
C15_Witness ==
    /\ stackOut.op = "search"
    /\ stackOut.ret = Number(1)
    /\ Stack_size(stack) = 3
    /\ stack.items[1] = stackOut.arg
    /\ stack.items[2] = stackOut.arg
    /\ stack.items[3] # stackOut.arg

\* the outcome of the k-th of k dequeues in a row (k >= 1)
RECURSIVE NthDequeue(_, _)
NthDequeue(Q, k) ==
    IF k = 1 THEN Queue_dequeue(Q) ELSE NthDequeue(Queue_dequeue(Q).self, k - 1)

\* C16: for every value, Queue.search returns -1 exactly when contains is
\* false and otherwise the 0-based index from the front of the first
\* occurrence; the element found at index i is the one the (i+1)-th dequeue
\* in a row returns.
C16_QueueSearch ==
    \A value \in Values :
        LET found == Queue_search(queue, value).ret
            occ == Occurrences(queue.items, value)
        IN  /\ (found = -1) <=> ~Queue_contains(queue, value).ret
            /\ Queue_contains(queue, value).ret <=> occ # {}
            /\ occ # {} =>
                 /\ found = Min(occ) - 1
                 /\ NthDequeue(queue, found + 1).ret = value
                 /\ Len(NthDequeue(queue, found + 1).self.items)
                      = Len(queue.items) - (found + 1)

\* search found at index 1 a value that is also at the rear
C16_Witness ==
    /\ queueOut.op = "search"
    /\ queueOut.ret = Number(1)
    /\ Queue_size(queue) = 3
    /\ queue.items[1] # queueOut.arg
    /\ queue.items[2] = queueOut.arg
    /\ queue.items[3] = queueOut.arg

\* C17: setMaxSize(n) with n below 1 throws the invalid size error and
\* leaves maxSize and the items unchanged; with n >= 1 it is accepted in
\* every state and getMaxSize() returns n afterwards.
C17_SetMaxSize ==
    [][stackOut'.op = "setMaxSize" =>
         IF stackOut'.n < 1
         THEN /\ stackOut'.thrown = StackInvalidSize
              /\ stack' = stack
         ELSE /\ stackOut'.thrown = NoError
              /\ Stack_getMaxSize(stack') = stackOut'.n]_vars

\* setMaxSize(0) was refused by a stack that holds elements
C17_Witness ==
    /\ stackOut.op = "setMaxSize"
    /\ stackOut.n = 0
    /\ stackOut.thrown = StackInvalidSize
    /\ Stack_size(stack) >= 2

\* the subsequence of a at the positions in keep
RECURSIVE Select(_, _)
Select(a, keep) ==
    IF Len(a) = 0 THEN <<>>
    ELSE Select(SubSeq(a, 1, Len(a) - 1), keep)
           \o (IF Len(a) \in keep THEN <<a[Len(a)]>> ELSE <<>>)

\* the positions in stack.items of the n most recently pushed elements
MostRecentN(n) == {i \in 1..Len(stackRank) : stackRank[i] > Len(stackRank) - n}

\* C18, as claimed: setMaxSize(n) with 1 <= n < size() leaves exactly the n
\* most recently added elements, in their original order, with the same
\* top; with n >= size() the items are unchanged.
C18_Original ==
    [][(stackOut'.op = "setMaxSize" /\ stackOut'.n >= 1) =>
         IF stackOut'.n < Stack_size(stack)
         THEN /\ stack'.items = Select(stack.items, MostRecentN(stackOut'.n))
              /\ Stack_peek(stack').ret = Stack_peek(stack).ret
         ELSE stack'.items = stack.items]_vars

\* C18, amended: setMaxSize(n) with 1 <= n < size() discards the bottom
\* elements: the items become the n elements nearest to the top, in their
\* order, and peek() returns the same top as before; they are the n most
\* recently added elements as long as reverse() has not been called on the
\* stack.  With n >= size() the items are unchanged.
C18_Truncate ==
    [][(stackOut'.op = "setMaxSize" /\ stackOut'.n >= 1) =>
         IF stackOut'.n < Stack_size(stack)
         THEN /\ stack'.items = SubSeq(stack.items,
                                       Len(stack.items) - stackOut'.n + 1,
                                       Len(stack.items))
              /\ Stack_peek(stack').ret = Stack_peek(stack).ret
              /\ ~reverseCalled =>
                    stack'.items = Select(stack.items, MostRecentN(stackOut'.n))
         ELSE stack'.items = stack.items]_vars

\* a stack never reversed was cut down to its two top elements, and the
\* element dropped differs from the new bottom
C18_Witness ==
    /\ stackOut.op = "setMaxSize"
    /\ stackOut.n = 2
    /\ stackOut.thrown = NoError
    /\ Stack_size(stack) = 2
    /\ stack.items[1] # stack.items[2]
    /\ ~reverseCalled

\* the calls that reached the sink are one validation error
OneValidationError(delivered) ==
    /\ Len(delivered) = 1
    /\ delivered[1].method = "validationError"

\* C19: a push command whose input is blank (empty or whitespace only)
\* leaves the items of the stack unchanged and its outcome is a validation
\* error feedback, in every state of the stack, a full stack included.
C19_BlankPushRejected ==
    [][(stackDemoOut'.cmd = "push" /\ Trim(stackDemo.input) = "") =>
         /\ stackDemo'.stack.items = stackDemo.stack.items
         /\ stackDemoOut'.thrown = NoError
         /\ OneValidationError(stackDemoOut'.delivered)]_vars

\* the notifications a QueueDemo command showed, through the sink or as a
\* toast of its own
Emitted(out) == out.delivered \o out.fallback

\* C20: an enqueue command with a blank value, a call of
\* QueueDemo.enqueue(value) with an empty value as well as a click of the
\* enqueue button with blank input, leaves the queue unchanged and emits one
\* warning.
C20_BlankEnqueueRejected ==
    [][(\/ queueDemoOut'.cmd = "enqueue" /\ queueDemoOut'.arg = ""
        \/ queueDemoOut'.cmd = "click" /\ Trim(queueDemo.inputField) = "") =>
         /\ queueDemo'.queue = queueDemo.queue
         /\ Len(Emitted(queueDemoOut')) = 1
         /\ Emitted(queueDemoOut')[1].method = "warning"]_vars

StackCommands == {"push", "pop", "peek", "clear"}

\* the input field holds a value push() accepts
ValidInput == Trim(stackDemo.input) # "" /\ Len(Trim(stackDemo.input)) <= 15

\* C21: push with a valid value on a full stack throws nothing, emits the
\* overflow notification alone and leaves the stack and the displayed size,
\* top and status as they were; pop on an empty stack emits the empty
\* notification alone and leaves the stack as it was.
C21_OverflowEmptyFeedback ==
    [][/\ (stackDemoOut'.cmd = "push" /\ ValidInput /\ Stack_isFull(stackDemo.stack)) =>
            /\ stackDemoOut'.thrown = NoError
            /\ stackDemoOut'.emitted = <<"stack.overflow">>
            /\ stackDemo'.stack = stackDemo.stack
            /\ stackDemo'.sizeDisplay = stackDemo.sizeDisplay
            /\ stackDemo'.topDisplay = stackDemo.topDisplay
            /\ stackDemo'.statusDisplay = stackDemo.statusDisplay
       /\ (stackDemoOut'.cmd = "pop" /\ Stack_isEmpty(stackDemo.stack)) =>
            /\ stackDemoOut'.thrown = NoError
            /\ stackDemoOut'.emitted = <<"stack.empty">>
            /\ stackDemo'.stack = stackDemo.stack]_vars

C21_Witness ==
    /\ stackDemoOut.cmd = "push"
    /\ stackDemoOut.emitted = <<"stack.overflow">>
    /\ Len(stackDemo.stack.items) = DemoCap
    /\ stackDemo.statusDisplay = "Full"

\* C22: with the NotificationSystem as window.notifications, every push,
\* pop, peek and clear command delivers exactly one notification to it.
C22_OneDeliveryPerCommand ==
    [][(sink = NotificationSystemSink /\ stackDemoOut'.cmd \in StackCommands) =>
         Len(stackDemoOut'.delivered) = 1]_vars

QueueCommands == {"enqueue", "dequeue", "viewFront", "clear"}

\* C23: every enqueue, dequeue, viewFront and clear command shows exactly
\* one notification through showNotification.
C23_OneNotificationPerCommand ==
    [][queueDemoOut'.cmd \in QueueCommands => Len(Emitted(queueDemoOut')) = 1]_vars

\* C24: with the NotificationSystem as window.notifications, no StackDemo
\* command and no QueueDemo command throws to its caller.
C24_NoErrorPropagates ==
    [][sink = NotificationSystemSink =>
         /\ stackDemoOut'.cmd \in StackCommands => stackDemoOut'.thrown = NoError
         /\ queueDemoOut'.cmd \in QueueCommands \cup {"click"} =>
                queueDemoOut'.thrown = NoError]_vars

\* C25: clear on an empty container is answered: StackDemo.clear emits the
\* info notification, which reaches the sink when there is one, and
\* QueueDemo.clear shows an info notification; the container stays empty.
C25_ClearOnEmptyAnswered ==
    [][/\ (stackDemoOut'.cmd = "clear" /\ Stack_isEmpty(stackDemo.stack)) =>
            /\ stackDemoOut'.emitted = <<"info">>
            /\ sink = NotificationSystemSink =>
                   /\ Len(stackDemoOut'.delivered) = 1
                   /\ stackDemoOut'.delivered[1].method = "info"
            /\ stackDemoOut'.thrown = NoError
            /\ Stack_isEmpty(stackDemo'.stack)
       /\ (queueDemoOut'.cmd = "clear" /\ Queue_isEmpty(queueDemo.queue)) =>
            /\ Len(Emitted(queueDemoOut')) >= 1
            /\ Emitted(queueDemoOut')[1].method = "info"
            /\ Queue_isEmpty(queueDemo'.queue)]_vars

C25_Witness ==
    /\ stackDemoOut.cmd = "clear"
    /\ stackDemoOut.emitted = <<"info">>
    /\ sink = NotificationSystemSink
    /\ Len(stackDemoOut.delivered) = 1
    /\ stackDemoOut.delivered[1].message = "Stack is already empty"
    /\ Stack_isEmpty(stackDemo.stack)

\* C26: the displayed status is the one computed from the container: the
\* size, the top (front, rear) or 'None' when the container is empty, and
\* the status of the stack Empty, Full or Active.
C26_ViewStateConsistent ==
    /\ stackDemo.sizeDisplay = Number(Stack_size(stackDemo.stack))
    /\ stackDemo.topDisplay = IF Stack_isEmpty(stackDemo.stack) THEN "None"
                              ELSE Stack_peek(stackDemo.stack).ret
    /\ stackDemo.statusDisplay = IF Stack_size(stackDemo.stack) = 0 THEN "Empty"
                                 ELSE IF Stack_size(stackDemo.stack) >= stackDemo.stack.maxSize
                                 THEN "Full"
                                 ELSE "Active"
    /\ queueDemo.sizeDisplay = Number(Queue_size(queueDemo.queue))
    /\ queueDemo.frontDisplay = IF Queue_isEmpty(queueDemo.queue) THEN "None"
                                ELSE Queue_front(queueDemo.queue).ret
    /\ queueDemo.rearDisplay = IF Queue_isEmpty(queueDemo.queue) THEN "None"
                               ELSE Queue_rear(queueDemo.queue).ret

\* C27: once all pending timers of the StackDemo have fired, the rendered
\* stack items, in order, are stack.toArray() bottom to top, whenever the
\* push, pop and clear commands came.
C27_ViewProjection ==
    stackDemo.timers = <<>> =>
        /\ stackDemo.container = Stack_toArray(stackDemo.stack).ret.elems
        /\ Len(stackDemo.container) = Stack_size(stackDemo.stack)

\* the command cmd of the StackDemo D run with w as window.notifications
StackDemoRun(cmd, D, w) ==
    CASE cmd = "push" -> StackDemo_push(D, w)
      [] cmd = "pop" -> StackDemo_pop(D, w)
      [] cmd = "peek" -> StackDemo_peek(D, w)
      [] cmd = "clear" -> StackDemo_clear(D, w)

\* the command cmd of the QueueDemo D run with w as the notifications object
QueueDemoRun(cmd, arg, D, w) ==
    CASE cmd = "enqueue" -> QueueDemo_enqueue(D, w, arg)
      [] cmd = "click" -> QueueDemo_enqueueClick(D, w)
      [] cmd = "dequeue" -> QueueDemo_dequeue(D, w)
      [] cmd = "viewFront" -> QueueDemo_viewFront(D, w)
      [] cmd = "clear" -> QueueDemo_clear(D, w)

\* C28: a missing notification sink does not change what a command does to
\* the demo: each command leaves the container, and with it the whole
\* instance, in the state the same command leaves it in with the sink
\* installed, so the two runs of a command sequence agree step by step;
\* and a command throws without the sink only if it throws with it.
C28_SinkAgnostic ==
    [][/\ stackDemoOut'.cmd \in StackCommands =>
            LET without == StackDemoRun(stackDemoOut'.cmd, stackDemo, SinkUndefined)
                with == StackDemoRun(stackDemoOut'.cmd, stackDemo, NotificationSystemSink)
            IN  /\ stackDemo' = without.self
                /\ stackDemo' = with.self
                /\ without.self.stack = with.self.stack
                /\ sink = SinkUndefined => stackDemoOut'.thrown = NoError
                /\ without.thrown # NoError => with.thrown # NoError
       /\ queueDemoOut'.cmd \in QueueCommands \cup {"click"} =>
            LET without == QueueDemoRun(queueDemoOut'.cmd, queueDemoOut'.arg, queueDemo,
                                        SinkUndefined)
                with == QueueDemoRun(queueDemoOut'.cmd, queueDemoOut'.arg, queueDemo,
                                     NotificationSystemSink)
            IN  /\ queueDemo' = without.self
                /\ queueDemo' = with.self
                /\ without.self.queue = with.self.queue
                /\ without.thrown # NoError => with.thrown # NoError]_vars

C28_Witness ==
    /\ sink = SinkUndefined
    /\ stackDemoOut.cmd = "push"
    /\ stackDemoOut.emitted = <<"stack.pushed">>
    /\ Len(stackDemo.stack.items) = DemoCap

\* C29: push of an empty or absent value on a full stack throws the
\* overflow error, not the invalid element error, the capacity being tested
\* before the value; the stack is unchanged whichever of the two is thrown.
C29_OverflowBeforeInvalid ==
    [][(stackOut'.op = "push" /\ stackOut'.arg \in EmptyValues) =>
         /\ Stack_isFull(stack) => stackOut'.thrown = StackOverflow
         /\ stackOut'.thrown \in {StackOverflow, StackInvalidElement}
         /\ stack' = stack]_vars

\* null was pushed on a full stack and the overflow error came
C29_Witness ==
    /\ stackOut.op = "push"
    /\ stackOut.arg = Null
    /\ stackOut.thrown = StackOverflow
    /\ Stack_isFull(stack)

QueueEnds == {"dequeue", "front", "rear"}

\* the element of the queue that the call op returns
EndElement(op) == IF op = "rear" THEN queue.items[Len(queue.items)] ELSE queue.items[1]

\* C30, as claimed: dequeue(), front() and rear() return null if and only
\* if the queue is empty at the call, whatever values were enqueued.
C30_Original ==
    [][queueOut'.op \in QueueEnds =>
         (queueOut'.ret = Null <=> Queue_isEmpty(queue))]_vars

\* C30, amended: dequeue(), front() and rear() return null if and only if
\* the queue is empty at the call or the element at that end is a null that
\* was enqueued; on a queue that holds no null, null means empty.
C30_Sentinel ==
    [][queueOut'.op \in QueueEnds =>
         /\ queueOut'.ret = Null <=>
                (Queue_isEmpty(queue) \/ EndElement(queueOut'.op) = Null)
         /\ (\A k \in 1..Len(queue.items) : queue.items[k] # Null) =>
                (queueOut'.ret = Null <=> Queue_isEmpty(queue))]_vars

\* rear() returned the null stored at the rear of a queue of two elements
C30_Witness ==
    /\ queueOut.op = "rear"
    /\ queueOut.ret = Null
    /\ Len(queue.items) = 2
    /\ queue.items[1] # Null
    /\ queue.items[2] = Null

\* a string push() stores: not empty, trimmed, at most 15 characters
Storable(value) == value # "" /\ Trim(value) = value /\ Len(value) <= 15

\* every element of the stack of the StackDemo is a storable string
StoredElements == \A k \in 1..Len(stackDemo.stack.items) : Storable(stackDemo.stack.items[k])

\* C31: push with an input whose trimmed length exceeds 15 characters is
\* rejected with one validation feedback and leaves the stack unchanged, and
\* every element stored through the push command is a non-empty, trimmed
\* string of at most 15 characters.
C31_LongInputRejected ==
    [][/\ (stackDemoOut'.cmd = "push" /\ Len(Trim(stackDemo.input)) > 15) =>
            /\ stackDemo'.stack = stackDemo.stack
            /\ stackDemoOut'.thrown = NoError
            /\ OneValidationError(stackDemoOut'.delivered)
       /\ StoredElements']_vars

\* the callbacks of a command that were called with the name given
CalledWith(out, name) == {k \in 1..Len(out.called) : out.called[k].name = name}

\* C32: enqueue calls the overflow callback only when the queue was full
\* and is left unchanged, and calls the enqueued callback exactly once, with
\* the value added, when it appended an element; no command both changes the
\* queue and calls the overflow callback.
C32_EnqueueCallbacks ==
    [][queueDemoOut'.cmd = "enqueue" =>
         /\ CalledWith(queueDemoOut', "overflow") # {} =>
                /\ Len(queueDemo.queue.items) >= queueDemo.queue.maxSize
                /\ queueDemo'.queue = queueDemo.queue
         /\ queueDemo'.queue # queueDemo.queue =>
                /\ Cardinality(CalledWith(queueDemoOut', "enqueued")) = 1
                /\ \A k \in CalledWith(queueDemoOut', "enqueued") :
                       queueDemoOut'.called[k].arg = queueDemoOut'.arg
                /\ CalledWith(queueDemoOut', "overflow") = {}]_vars

\* the toasts in activeToasts
ActiveSerials == {notifications.activeToasts[i].serial :
                      i \in 1..Len(notifications.activeToasts)}

\* C33: whatever show() calls and timers came before, activeToasts holds at
\* most maxToasts toasts.
C33_ToastBound == Len(notifications.activeToasts) <= notifications.maxToasts

\* C34: once the 300 ms timer of remove(id) has fired, the toast remove(id)
\* found is absent from activeToasts, and every toast shown for which
\* remove() was never called is still in activeToasts.
C34_RemoveExactly ==
    /\ toastLog.spliced \cap ActiveSerials = {}
    /\ (1..notifications.shown) \ toastLog.removed \subseteq ActiveSerials

\* C35: when clear() was called, no show() came after it and every timer
\* has fired, activeToasts is empty.
C35_ClearEmpties ==
    (toastLog.cleared /\ notifications.timers = <<>>) =>
        notifications.activeToasts = <<>>

\* C36: a toast whose dismissal timer and whose removal timer have both
\* fired is absent from activeToasts.
C36_AutoDismissed ==
    (toastLog.dismissed \cap toastLog.spliced) \cap ActiveSerials = {}

\* the calls that change a stack
StackChanges == {"push", "pop", "clear", "reverse", "setMaxSize"}

\* how many elements still fit on stack S
Fits(S) == IF S.maxSize > Len(S.items) THEN S.maxSize - Len(S.items) ELSE 0

\* C37: this.merge(other) with a Stack other does not throw, leaves this and
\* other as they were and returns a stack with the maxSize of this whose items
\* are those of this followed by the longest prefix, from the bottom, of
\* those of other that fits.
C37_Merge ==
    [][(stacksOut'.op = "merge" /\ stacksOut'.arg \in Names) =>
           LET this == stacks[stacksOut'.on]
               other == stacks[stacksOut'.arg]
               n == IF Len(other.items) < Fits(this) THEN Len(other.items)
                    ELSE Fits(this)
           IN  /\ stacksOut'.thrown = NoError
               /\ stacksOut'.self = this
               /\ stacksOut'.other = other
               /\ stacks'.s = stacks.s
               /\ stacks'.t.maxSize = this.maxSize
               /\ stacks'.t.items = this.items \o SubSeq(other.items, 1, n)]_vars

\* C38: clone() returns a stack with the items and the maxSize of the
\* original and leaves the original as it was; while t is the clone of s, a
\* push, pop, clear, reverse or setMaxSize on one of the two leaves the other
\* as it was.
C38_CloneIndependent ==
    [][/\ stacksOut'.op = "clone" => (stacks'.t = stacks.s /\ stacks'.s = stacks.s)
       /\ (stacks.made = "clone" /\ stacksOut'.op \in StackChanges) =>
              stacks'[Other(stacksOut'.on)] = stacks[Other(stacksOut'.on)]]_vars

C38_Witness ==
    /\ stacks.made = "clone"
    /\ stacksOut.op = "push"
    /\ stacksOut.on = "t"
    /\ stacksOut.thrown = NoError
    /\ Len(stacks.t.items) = Len(stacks.s.items) + 1
    /\ stacks.s.items # <<>>

\* C39: Stack.fromJSON(s.toJSON()) returns a stack with the items and the
\* maxSize of s; while t is that stack, a push, pop or reverse on one of the
\* two leaves the items of the other as they were.
C39_RoundTripIndependent ==
    [][/\ stacksOut'.op = "roundTrip" =>
              /\ stacksOut'.thrown = NoError
              /\ stacks'.t = stacks.s
              /\ stacks'.s = stacks.s
       /\ (stacks.made = "roundTrip" /\ stacksOut'.op \in {"push", "pop", "reverse"}) =>
              stacks'[Other(stacksOut'.on)].items = stacks[Other(stacksOut'.on)].items]_vars

\* C40: isValid() holds of every stack, whatever calls succeeded or threw
\* before and whether the stack was made by the constructor, clone(), merge()
\* or fromJSON().
C40_AlwaysValid == Stack_isValid(stacks.s) /\ Stack_isValid(stacks.t)

====
